---------------------------- MODULE Spec2Model ----------------------------
(***************************************************************************)
(* A model of the TTML linter and formatter (src/lint_ttml.py).            *)
(*                                                                         *)
(* Text is a sequence of one-character strings, so that parsing and        *)
(* rendering are computed character by character as the code does.         *)
(* Python positions are 0-based and -1 means "not found"; the model's are  *)
(* 1-based and 0 means "not found".                                        *)
(***************************************************************************)
EXTENDS Integers, Sequences, FiniteSets, TLC

(***************************************************************************)
(* Characters and the string primitives of Python that the code uses.      *)
(***************************************************************************)

\* str.isspace() / regex \s over the characters of the model
Whitespace == {" ", "\n", "\t", "\r"}

\* regex \w over the characters of the model
WordChars ==
    {"a","b","c","d","e","f","g","h","i","j","k","l","m","n","o","p","q",
     "r","s","t","u","v","w","x","y","z",
     "A","B","C","D","E","F","G","H","I","J","K","L","M","N","O","P","Q",
     "R","S","T","U","V","W","X","Y","Z",
     "0","1","2","3","4","5","6","7","8","9","_"}

\* regex class [\w:.\-] of parse_attrs
AttrNameChars == WordChars \cup {":", ".", "-"}

\* s[i-1:j-1] of Python for 1-based i, j (empty when the slice is empty)
Slice(s, i, j) == IF i > j \/ i > Len(s) THEN <<>>
                  ELSE SubSeq(s, i, IF j > Len(s) THEN Len(s) ELSE j)

\* s[i-1:] of Python
SliceFrom(s, i) == Slice(s, i, Len(s))

\* s.startswith(pat, i-1)
StartsAt(s, pat, i) ==
    /\ i >= 1
    /\ i + Len(pat) - 1 <= Len(s)
    /\ \A k \in 1..Len(pat) : s[i + k - 1] = pat[k]

startswith(s, pat) == StartsAt(s, pat, 1)

endswith(s, pat) == Len(s) >= Len(pat) /\ StartsAt(s, pat, Len(s) - Len(pat) + 1)

RECURSIVE find(_, _, _)
\* s.find(pat, i-1) + 1: the first position >= i where pat occurs, 0 if none
find(s, pat, i) ==
    IF i + Len(pat) - 1 > Len(s) THEN 0
    ELSE IF StartsAt(s, pat, i) THEN i
    ELSE find(s, pat, i + 1)

\* c in s
Contains(s, c) == \E k \in 1..Len(s) : s[k] = c

RECURSIVE lstrip(_)
lstrip(s) == IF s # <<>> /\ Head(s) \in Whitespace THEN lstrip(Tail(s)) ELSE s

RECURSIVE rstrip(_)
rstrip(s) == IF s # <<>> /\ s[Len(s)] \in Whitespace
             THEN rstrip(SubSeq(s, 1, Len(s) - 1)) ELSE s

strip(s) == rstrip(lstrip(s))

RECURSIVE SkipSpace(_, _)
\* the first position >= i of s that holds no whitespace (Len(s)+1 if none)
SkipSpace(s, i) == IF i <= Len(s) /\ s[i] \in Whitespace THEN SkipSpace(s, i + 1) ELSE i

RECURSIVE SkipWhile(_, _, _)
\* the first position >= i of s that holds no character of set
SkipWhile(s, set, i) == IF i <= Len(s) /\ s[i] \in set THEN SkipWhile(s, set, i + 1) ELSE i

RECURSIVE SkipNonSpace(_, _)
\* the first position >= i of s that holds whitespace (Len(s)+1 if none)
SkipNonSpace(s, i) ==
    IF i <= Len(s) /\ s[i] \notin Whitespace THEN SkipNonSpace(s, i + 1) ELSE i

\* s.split(None, 1): <<>>, <<first>> or <<first, rest>>
split1(s) ==
    LET t == lstrip(s)
        e == SkipNonSpace(t, 1)
        r == SliceFrom(t, SkipSpace(t, e))
    IN IF t = <<>> THEN <<>>
       ELSE IF r = <<>> THEN <<Slice(t, 1, e - 1)>>
       ELSE <<Slice(t, 1, e - 1), r>>

RECURSIVE replace(_, _, _)
\* s.replace(old, new): non-overlapping occurrences, left to right
replace(s, old, new) ==
    IF s = <<>> THEN <<>>
    ELSE IF StartsAt(s, old, 1) THEN new \o replace(SliceFrom(s, Len(old) + 1), old, new)
    ELSE <<Head(s)>> \o replace(Tail(s), old, new)

RECURSIVE JoinWith(_, _)
\* sep.join(parts)
JoinWith(parts, sep) ==
    IF parts = <<>> THEN <<>>
    ELSE IF Len(parts) = 1 THEN parts[1]
    ELSE parts[1] \o sep \o JoinWith(Tail(parts), sep)

RECURSIVE Concat(_)
\* "".join(parts)
Concat(parts) == IF parts = <<>> THEN <<>> ELSE Head(parts) \o Concat(Tail(parts))

(***************************************************************************)
(* Nodes.  A child is either a text run (Python str) or an XMLNode; both   *)
(* are records of one shape, told apart by isText.  The parent             *)
(* back-reference of XMLNode is never read by the code and is not kept.    *)
(***************************************************************************)

\* a str child of XMLNode.children
TextNode(t) ==
    [isText |-> TRUE, text |-> t, tag |-> <<>>, attrs |-> <<>>, children |-> <<>>,
     is_self_closing |-> FALSE, is_processing_instruction |-> FALSE]

\* XMLNode.__init__
XMLNode(tag, attrs, is_pi) ==
    [isText |-> FALSE, text |-> <<>>, tag |-> tag, attrs |-> attrs, children |-> <<>>,
     is_self_closing |-> FALSE, is_processing_instruction |-> is_pi]

(***************************************************************************)
(* parse_attrs: re.finditer of the pattern  name \s* = \s* quoted-value,    *)
(* the name a run of [\w:.\-], the value between two double quotes or two  *)
(* single quotes and free of that quote.                                   *)
(***************************************************************************)

\* The match of the pattern that starts at position i of s, as
\* [ok, name, value, stop] with stop the position after the match.
AttrMatchAt(s, i) ==
    LET nameEnd == SkipWhile(s, AttrNameChars, i)
        eq      == SkipSpace(s, nameEnd)
        q       == SkipSpace(s, eq + 1)
        quote   == IF q <= Len(s) THEN s[q] ELSE ""
        close   == IF quote \in {"\"", "'"} THEN find(s, <<quote>>, q + 1) ELSE 0
        ok      == /\ nameEnd > i
                   /\ eq <= Len(s) /\ s[eq] = "="
                   /\ close > 0
    IN [ok |-> ok,
        name |-> IF ok THEN Slice(s, i, nameEnd - 1) ELSE <<>>,
        value |-> IF ok THEN Slice(s, q + 1, close - 1) ELSE <<>>,
        stop |-> IF ok THEN close + 1 ELSE i + 1]

RECURSIVE AttrScan(_, _)
AttrScan(s, i) ==
    IF i > Len(s) THEN <<>>
    ELSE LET m == AttrMatchAt(s, i)
         IN IF m.ok THEN <<<<m.name, m.value>>>> \o AttrScan(s, m.stop)
            ELSE AttrScan(s, i + 1)

\* the list of (name, value) pairs, in source order
parse_attrs(attr_str) == AttrScan(attr_str, 1)

(***************************************************************************)
(* find_tag_end: the closing > of a tag, skipping quoted attribute values. *)
(***************************************************************************)

RECURSIVE TagEndScan(_, _, _)
TagEndScan(content, pos, in_quote) ==
    IF pos > Len(content) THEN 0
    ELSE LET ch == content[pos]
         IN IF in_quote # ""
            THEN TagEndScan(content, pos + 1, IF ch = in_quote THEN "" ELSE in_quote)
            ELSE IF ch \in {"\"", "'"} THEN TagEndScan(content, pos + 1, ch)
            ELSE IF ch = ">" THEN pos
            ELSE TagEndScan(content, pos + 1, "")

find_tag_end(content, start) == TagEndScan(content, start + 1, "")

(***************************************************************************)
(* parse_ttml.  The state of its loop is [pos, root_nodes, stack, status]; *)
(* the stack holds the open elements, innermost last, each with the        *)
(* children it has so far.  Python links an element into its parent when   *)
(* it is opened; here it is linked when it is popped, and Tree gives the   *)
(* tree Python holds at any moment (every open element linked).            *)
(***************************************************************************)

AppendChild(parent, child) == [parent EXCEPT !.children = Append(@, child)]

\* add_child for a node that stays closed (a PI or a self-closing element)
add_child(st, node) ==
    IF st.stack # <<>>
    THEN [st EXCEPT !.stack[Len(st.stack)] = AppendChild(@, node)]
    ELSE [st EXCEPT !.root_nodes = Append(@, node)]

\* add_text
add_text(st, text) ==
    IF text = <<>> THEN st
    ELSE IF st.stack # <<>>
    THEN [st EXCEPT !.stack[Len(st.stack)] = AppendChild(@, TextNode(text))]
    ELSE IF strip(text) # <<>>
    THEN [st EXCEPT !.root_nodes = Append(@, TextNode(text))]
    ELSE st

\* stack.pop(): the popped element is complete and sits in its parent
PopStack(st) ==
    LET n   == Len(st.stack)
        top == st.stack[n]
        st1 == [st EXCEPT !.stack = SubSeq(@, 1, n - 1)]
    IN add_child(st1, top)

RECURSIVE CloseAll(_)
CloseAll(st) == IF st.stack = <<>> THEN st ELSE CloseAll(PopStack(st))

\* root_nodes as Python holds it: open elements are already in their parents
Tree(st) == CloseAll(st).root_nodes

ParseInit == [pos |-> 1, root_nodes |-> <<>>, stack |-> <<>>, status |-> "scan"]

Stop(st, why) == [st EXCEPT !.status = why]

\* lines 113-125
StepPI(content, st, next_lt) ==
    LET end        == find(content, <<"?", ">">>, next_lt)
        pi_content == strip(Slice(content, next_lt + 2, end - 1))
        pi_parts   == split1(pi_content)
        node       == XMLNode(pi_parts[1],
                              parse_attrs(IF Len(pi_parts) > 1 THEN pi_parts[2] ELSE <<>>),
                              TRUE)
    IN IF end = 0 THEN Stop(st, "truncated")
       ELSE IF pi_parts = <<>> THEN Stop(st, "raise")
       ELSE [add_child(st, node) EXCEPT !.pos = end + 2]

\* the comment branch leaving the read position at the < of the comment
StepComment_stay(content, st, next_lt) ==
    LET end == find(content, <<"-", "-", ">">>, next_lt)
    IN IF end = 0 THEN Stop(st, "truncated") ELSE [st EXCEPT !.pos = next_lt]

\* lines 127-133
StepComment(content, st, next_lt) ==
    LET end == find(content, <<"-", "-", ">">>, next_lt)
    IN IF end = 0 THEN Stop(st, "truncated") ELSE [st EXCEPT !.pos = end + 3]

\* lines 135-143
StepClose(content, st, next_lt) ==
    LET end == find(content, <<">">>, next_lt)
    IN IF end = 0 THEN Stop(st, "truncated")
       ELSE [(IF st.stack # <<>> THEN PopStack(st) ELSE st) EXCEPT !.pos = end + 1]

\* lines 145-171
StepOpen(content, st, next_lt) ==
    LET tag_end         == find_tag_end(content, next_lt)
        raw             == Slice(content, next_lt + 1, tag_end - 1)
        is_self_closing == endswith(raw, <<"/">>)
        tag_content     == strip(IF is_self_closing THEN Slice(raw, 1, Len(raw) - 1) ELSE raw)
        parts           == split1(tag_content)
        attrs           == parse_attrs(IF Len(parts) > 1 THEN parts[2] ELSE <<>>)
        node            == [XMLNode(parts[1], attrs, FALSE)
                              EXCEPT !.is_self_closing = is_self_closing]
    IN IF tag_end = 0 THEN Stop(st, "truncated")
       ELSE IF parts = <<>> THEN Stop(st, "raise")
       ELSE IF is_self_closing THEN [add_child(st, node) EXCEPT !.pos = tag_end + 1]
       ELSE [st EXCEPT !.stack = Append(@, node), !.pos = tag_end + 1]

\* ParseStep with the text before a tag added only once the tag is known
\* to be complete: on truncation that text is not in the result
ParseStep_text_after_tag(content, st) ==
    LET pos     == st.pos
        next_lt == find(content, <<"<">>, pos)
        st1     == IF next_lt > pos
                   THEN add_text(st, Slice(content, pos, next_lt - 1)) ELSE st
        r       == IF StartsAt(content, <<"<", "?">>, next_lt)
                   THEN StepPI(content, st1, next_lt)
                   ELSE IF StartsAt(content, <<"<", "!", "-", "-">>, next_lt)
                   THEN StepComment(content, st1, next_lt)
                   ELSE IF StartsAt(content, <<"/">>, next_lt + 1)
                   THEN StepClose(content, st1, next_lt)
                   ELSE StepOpen(content, st1, next_lt)
    IN IF pos > Len(content) THEN Stop(st, "done")
       ELSE IF next_lt = 0 THEN Stop(add_text(st, SliceFrom(content, pos)), "done")
       ELSE IF r.status = "truncated" THEN Stop(st, "truncated")
       ELSE r

\* one iteration of the while loop (lines 102-171)
ParseStep(content, st) ==
    LET pos     == st.pos
        next_lt == find(content, <<"<">>, pos)
        st1     == IF next_lt > pos
                   THEN add_text(st, Slice(content, pos, next_lt - 1)) ELSE st
    IN IF pos > Len(content) THEN Stop(st, "done")
       ELSE IF next_lt = 0 THEN Stop(add_text(st, SliceFrom(content, pos)), "done")
       ELSE IF StartsAt(content, <<"<", "?">>, next_lt) THEN StepPI(content, st1, next_lt)
       ELSE IF StartsAt(content, <<"<", "!", "-", "-">>, next_lt)
            THEN StepComment(content, st1, next_lt)
       ELSE IF StartsAt(content, <<"/">>, next_lt + 1) THEN StepClose(content, st1, next_lt)
       ELSE StepOpen(content, st1, next_lt)

RECURSIVE ParseLoop(_, _)
ParseLoop(content, st) ==
    IF st.status # "scan" THEN st ELSE ParseLoop(content, ParseStep(content, st))

\* the final state of the loop of parse_ttml
ParseRun(content) == ParseLoop(content, ParseInit)

\* parse_ttml raised (IndexError at parts[0] / pi_parts[0])
ParseRaises(content) == ParseRun(content).status = "raise"

\* the list parse_ttml returns (when it does not raise)
parse_ttml(content) == Tree(ParseRun(content))

(***************************************************************************)
(* The formatter.                                                          *)
(***************************************************************************)

\* ATTR_ORDER: the names in priority order (priority = position - 1)
ATTR_ORDER ==
    << <<"b", "e", "g", "i", "n">>,
       <<"e", "n", "d">>,
       <<"d", "u", "r">>,
       <<"t", "t", "m", ":", "a", "g", "e", "n", "t">>,
       <<"t", "t", "m", ":", "r", "o", "l", "e">>,
       <<"i", "t", "u", "n", "e", "s", ":", "k", "e", "y">>,
       <<"i", "t", "u", "n", "e", "s", ":", "t", "i", "m", "i", "n", "g">>,
       <<"t", "y", "p", "e">>,
       <<"x", "m", "l", ":", "i", "d">>,
       <<"x", "m", "l", ":", "l", "a", "n", "g">>,
       <<"x", "-", "r", "o", "m", "a", "n">>,
       <<"f", "o", "r">> >>

\* The characters in code-point order, for Python's comparison of strings
CodeOrder ==
    <<"\t", "\n", "\r", " ", "!", "\"", "'", "(", ")", "-", ".", "/",
      "0", "1", "2", "3", "4", "5", "6", "7", "8", "9", ":", "<", "=", ">", "?",
      "A", "B", "C", "D", "E", "F", "G", "H", "I", "J", "K", "L", "M", "N", "O", "P", "Q",
      "R", "S", "T", "U", "V", "W", "X", "Y", "Z", "_",
      "a", "b", "c", "d", "e", "f", "g", "h", "i", "j", "k", "l", "m", "n", "o", "p", "q",
      "r", "s", "t", "u", "v", "w", "x", "y", "z">>

Ord(c) == CHOOSE i \in 1..Len(CodeOrder) : CodeOrder[i] = c

RECURSIVE StrLess(_, _)
\* a < b for Python strings
StrLess(a, b) ==
    IF b = <<>> THEN FALSE
    ELSE IF a = <<>> THEN TRUE
    ELSE IF Head(a) = Head(b) THEN StrLess(Tail(a), Tail(b))
    ELSE Ord(Head(a)) < Ord(Head(b))

\* attr_sort_key without the name in the key of an unknown attribute: the
\* unknown attributes would keep their source order
attr_sort_key_unnamed(name) ==
    IF \E i \in 1..Len(ATTR_ORDER) : ATTR_ORDER[i] = name
    THEN <<0, (CHOOSE i \in 1..Len(ATTR_ORDER) : ATTR_ORDER[i] = name) - 1, name>>
    ELSE <<1, 0, <<>>>>

\* attr_sort_key: (0, priority, name) for a known name, (1, 0, name) otherwise
attr_sort_key(name) ==
    IF \E i \in 1..Len(ATTR_ORDER) : ATTR_ORDER[i] = name
    THEN <<0, (CHOOSE i \in 1..Len(ATTR_ORDER) : ATTR_ORDER[i] = name) - 1, name>>
    ELSE <<1, 0, name>>

\* k1 < k2 for two sort keys (Python's comparison of tuples)
KeyLess(k1, k2) ==
    \/ k1[1] < k2[1]
    \/ k1[1] = k2[1] /\ k1[2] < k2[2]
    \/ k1[1] = k2[1] /\ k1[2] = k2[2] /\ StrLess(k1[3], k2[3])

RECURSIVE InsertSorted(_, _)
\* a placed after every element whose key is not greater (the sort is stable)
InsertSorted(sorted, a) ==
    IF sorted = <<>> THEN <<a>>
    ELSE IF KeyLess(attr_sort_key(a[1]), attr_sort_key(Head(sorted)[1]))
    THEN <<a>> \o sorted
    ELSE <<Head(sorted)>> \o InsertSorted(Tail(sorted), a)

RECURSIVE SortAttrs(_, _)
SortAttrs(attrs, acc) ==
    IF attrs = <<>> THEN acc ELSE SortAttrs(Tail(attrs), InsertSorted(acc, Head(attrs)))


\* format_attrs: name="value" joined by single spaces, in sorted order
format_attrs(attrs) ==
    LET sa == SortAttrs(attrs, <<>>)
    IN JoinWith([i \in 1..Len(sa) |-> sa[i][1] \o <<"=", "\"">> \o sa[i][2] \o <<"\"">>],
                <<" ">>)

RECURSIVE sub_ws_nl_ws(_, _, _)
\* re.sub(r'\s*\n\s*', repl, s) from position i: a whole whitespace run that
\* holds a newline becomes repl
sub_ws_nl_ws(s, repl, i) ==
    IF i > Len(s) THEN <<>>
    ELSE LET j == SkipSpace(s, i)
         IN IF j > i /\ \E k \in i..(j - 1) : s[k] = "\n"
            THEN repl \o sub_ws_nl_ws(s, repl, j)
            ELSE <<s[i]>> \o sub_ws_nl_ws(s, repl, i + 1)

RECURSIVE sub_nl_ws(_, _, _)
\* re.sub(r'\n\s*', repl, s) from position i
sub_nl_ws(s, repl, i) ==
    IF i > Len(s) THEN <<>>
    ELSE IF s[i] = "\n" THEN repl \o sub_nl_ws(s, repl, SkipSpace(s, i + 1))
    ELSE <<s[i]>> \o sub_nl_ws(s, repl, i + 1)

RECURSIVE sub_ws(_, _)
\* re.sub(r'\s+', ' ', s) from position i
sub_ws(s, i) ==
    IF i > Len(s) THEN <<>>
    ELSE IF s[i] \in Whitespace THEN <<" ">> \o sub_ws(s, SkipSpace(s, i))
    ELSE <<s[i]>> \o sub_ws(s, i + 1)

\* "  " * indent
Indent(indent) == [i \in 1..(2 * indent) |-> " "]

XML_DECL ==
    <<"<", "?", "x", "m", "l", " ", "v", "e", "r", "s", "i", "o", "n", "=", "\"", "1", ".", "0", "\"", " ", "e", "n", "c", "o", "d", "i", "n", "g", "=", "\"", "u", "t", "f", "-", "8", "\"", "?", ">">>

TT_P == <<"t", "t", ":", "p">>
TT_SPAN == <<"t", "t", ":", "s", "p", "a", "n">>
P_TAG == <<"p">>
SPAN_TAG == <<"s", "p", "a", "n">>
X_BG == <<"x", "-", "b", "g">>

\* any(n == "ttm:role" and v == "x-bg" for n, v in node.attrs) on a span_tag node
IsBgWrapper(node, span_tag) ==
    /\ node.tag = span_tag
    /\ \E i \in 1..Len(node.attrs) : node.attrs[i] = << <<"t", "t", "m", ":", "r", "o", "l", "e">>, X_BG >>

RECURSIVE clean_double_parens(_)
\* clean_double_parens (lines 347-353), on a list of children
clean_double_parens(nodes) ==
    [i \in 1..Len(nodes) |->
        IF nodes[i].isText
        THEN TextNode(replace(replace(nodes[i].text, <<"(", "(">>, <<"(">>),
                              <<")", ")">>, <<")">>))
        ELSE [nodes[i] EXCEPT !.children = clean_double_parens(@)]]

RECURSIVE StripIndentation(_)
\* step 1 (lines 359-371): a text run with a newline is stripped and dropped
\* if nothing is left; other children are kept
StripIndentation(children) ==
    IF children = <<>> THEN <<>>
    ELSE LET child == Head(children)
             rest  == StripIndentation(Tail(children))
         IN IF child.isText
            THEN IF Contains(child.text, "\n")
                 THEN IF strip(child.text) # <<>>
                      THEN <<TextNode(strip(child.text))>> \o rest
                      ELSE rest
                 ELSE IF child.text # <<>> THEN <<child>> \o rest ELSE rest
            ELSE <<child>> \o rest

RECURSIVE MergeLoop_into_next(_, _, _)
\* MergeLoop with every text run kept for the element that follows it
MergeLoop_into_next(clean_children, merged, pending_text) ==
    IF clean_children = <<>>
    THEN IF pending_text # <<>>
         THEN IF merged # <<>> /\ ~merged[Len(merged)].isText
              THEN [merged EXCEPT ![Len(merged)] = AppendChild(@, TextNode(pending_text))]
              ELSE Append(merged, TextNode(pending_text))
         ELSE merged
    ELSE LET child == Head(clean_children)
             rest  == Tail(clean_children)
         IN IF child.isText
            THEN MergeLoop_into_next(rest, merged, pending_text \o child.text)
            ELSE IF pending_text # <<>>
                 THEN MergeLoop_into_next(rest,
                                          Append(merged,
                                                 [child EXCEPT !.children =
                                                      <<TextNode(pending_text)>> \o @]),
                                          <<>>)
                 ELSE MergeLoop_into_next(rest, Append(merged, child), pending_text)

RECURSIVE MergeLoop(_, _, _)
\* step 2 (lines 375-395); merged holds only XMLNodes until the end
MergeLoop(clean_children, merged, pending_text) ==
    IF clean_children = <<>>
    THEN IF pending_text # <<>>
         THEN IF merged # <<>> /\ ~merged[Len(merged)].isText
              THEN [merged EXCEPT ![Len(merged)] = AppendChild(@, TextNode(pending_text))]
              ELSE Append(merged, TextNode(pending_text))
         ELSE merged
    ELSE LET child == Head(clean_children)
             rest  == Tail(clean_children)
         IN IF child.isText
            THEN IF merged # <<>> /\ ~merged[Len(merged)].isText
                 THEN MergeLoop(rest,
                                [merged EXCEPT ![Len(merged)] = AppendChild(@, child)],
                                pending_text)
                 ELSE MergeLoop(rest, merged, pending_text \o child.text)
            ELSE IF pending_text # <<>>
                 THEN MergeLoop(rest,
                                Append(merged,
                                       [child EXCEPT !.children =
                                            <<TextNode(pending_text)>> \o @]),
                                <<>>)
                 ELSE MergeLoop(rest, Append(merged, child), pending_text)

\* merged_nodes with step 1 dropping every whitespace-only text run, the
\* single space between two spans included
merged_nodes_blank_dropped(node, is_bg_wrapper) ==
    MergeLoop(StripIndentation(
                  SelectSeq(IF is_bg_wrapper THEN clean_double_parens(node.children)
                            ELSE node.children,
                            LAMBDA c : ~c.isText \/ strip(c.text) # <<>>)),
              <<>>, <<>>)

\* the children of a line or background wrapper after the two rewrites
merged_nodes(node, is_bg_wrapper) ==
    LET children == IF is_bg_wrapper THEN clean_double_parens(node.children)
                    ELSE node.children
    IN MergeLoop(StripIndentation(children), <<>>, <<>>)

\* <open_tag/>, <open_tag> and </tag>
SelfClosed(open_tag) == <<"<">> \o open_tag \o <<"/", ">">>
Opened(open_tag) == <<"<">> \o open_tag \o <<">">>
Closed(tag) == <<"<", "/">> \o tag \o <<">">>

RECURSIVE format_node(_, _, _, _, _)
RECURSIVE ForceInlineInner(_, _)
RECURSIVE InlineInner(_, _, _, _)
RECURSIVE LineItems(_, _, _, _)
RECURSIVE TextOnlyInner(_, _)
RECURSIVE StructuralChildren(_, _, _)

\* lines 288-296: the inner text of a force-inline element
ForceInlineInner(children, uses_prefix) ==
    IF children = <<>> THEN <<>>
    ELSE LET child == Head(children)
             part  == IF child.isText
                      THEN IF Contains(child.text, "\n")
                           THEN sub_ws_nl_ws(child.text, <<" ">>, 1)
                           ELSE child.text
                      ELSE Concat(format_node(child, 0, uses_prefix, TRUE, TRUE))
         IN part \o ForceInlineInner(Tail(children), uses_prefix)

\* lines 330-340: the inner text of an inline element
InlineInner(children, indent, uses_prefix, span_tag) ==
    IF children = <<>> THEN <<>>
    ELSE LET child == Head(children)
             part  == IF child.isText
                      THEN IF Contains(child.text, "\n")
                           THEN sub_nl_ws(child.text, <<>>, 1)
                           ELSE child.text
                      ELSE Concat(format_node(child, indent, uses_prefix,
                                              ~IsBgWrapper(child, span_tag), FALSE))
         IN part \o InlineInner(Tail(children), indent, uses_prefix, span_tag)

\* lines 399-413: the lines of the merged children of a line or wrapper
LineItems(items, indent, uses_prefix, span_tag) ==
    IF items = <<>> THEN <<>>
    ELSE LET item        == Head(items)
             child_ind   == Indent(indent + 1)
             child_parts == format_node(item, indent + 1, uses_prefix,
                                        ~IsBgWrapper(item, span_tag), FALSE)
             mine        == IF item.isText
                            THEN IF strip(item.text) # <<>>
                                 THEN <<child_ind \o item.text>> ELSE <<>>
                            ELSE IF Len(child_parts) > 1 THEN child_parts
                            ELSE <<child_ind \o Concat(child_parts)>>
         IN mine \o LineItems(Tail(items), indent, uses_prefix, span_tag)

\* lines 423-434: the inner text of a text-only element or itunes:text
TextOnlyInner(children, uses_prefix) ==
    IF children = <<>> THEN <<>>
    ELSE LET child == Head(children)
             part  == IF child.isText
                      THEN IF Contains(child.text, "\n")
                           THEN sub_nl_ws(child.text, <<" ">>, 1)
                           ELSE child.text
                      ELSE Concat(format_node(child, 0, uses_prefix, TRUE, TRUE))
         IN part \o TextOnlyInner(Tail(children), uses_prefix)

\* lines 445-455: the lines of the children of a structural element
StructuralChildren(children, indent, uses_prefix) ==
    IF children = <<>> THEN <<>>
    ELSE LET child == Head(children)
             text0 == strip(child.text)
             text  == IF Contains(text0, "\n") THEN sub_nl_ws(text0, <<" ">>, 1) ELSE text0
             mine  == IF child.isText
                      THEN IF text # <<>> THEN <<Indent(indent + 1) \o text>> ELSE <<>>
                      ELSE format_node(child, indent + 1, uses_prefix, FALSE, FALSE)
         IN mine \o StructuralChildren(Tail(children), indent, uses_prefix)

\* an element is empty only when the source closed it with a slash
EmptyElement_slash_only(node) == node.is_self_closing

\* node.is_self_closing or (not node.children) (lines 299 and 311)
EmptyElement(node) == node.is_self_closing \/ node.children = <<>>

\* format_node (lines 248-457): the list of lines of a node
format_node(node, indent, uses_prefix, inside_p, force_inline) ==
    LET ind      == Indent(indent)
        tag      == node.tag
        attr_str == format_attrs(node.attrs)
        open_tag == IF attr_str # <<>> THEN rstrip(tag \o <<" ">> \o attr_str) ELSE tag
        childless == EmptyElement(node)
        p_tag    == IF uses_prefix THEN TT_P ELSE P_TAG
        span_tag == IF uses_prefix THEN TT_SPAN ELSE SPAN_TAG
        is_p     == tag = p_tag
        is_span  == tag = span_tag
        is_bg_wrapper == IsBgWrapper(node, span_tag)
        is_text_only == \A i \in 1..Len(node.children) : node.children[i].isText
        is_itunes_text == tag = <<"i", "t", "u", "n", "e", "s", ":", "t", "e", "x", "t">>
    IN IF node.isText
       THEN IF inside_p THEN <<node.text>>
            ELSE IF strip(node.text) # <<>> THEN <<ind \o node.text>>
            ELSE <<>>
       ELSE IF node.is_processing_instruction
       THEN IF tag = <<"x", "m", "l">> THEN <<ind \o XML_DECL>>
            ELSE IF attr_str # <<>>
                 THEN <<ind \o <<"<", "?">> \o tag \o <<" ">> \o attr_str \o <<"?", ">">> >>
                 ELSE <<ind \o <<"<", "?">> \o tag \o <<"?", ">">> >>
       ELSE IF force_inline
       THEN LET inner == strip(sub_ws(ForceInlineInner(node.children, uses_prefix), 1))
            IN IF childless
               THEN IF inside_p THEN <<SelfClosed(open_tag)>>
                    ELSE <<ind \o SelfClosed(open_tag)>>
               ELSE IF inside_p THEN <<Opened(open_tag) \o inner \o Closed(tag)>>
                    ELSE <<ind \o Opened(open_tag) \o inner \o Closed(tag)>>
       ELSE IF childless
       THEN IF inside_p THEN <<SelfClosed(open_tag)>> ELSE <<ind \o SelfClosed(open_tag)>>
       ELSE IF (inside_p /\ ~is_bg_wrapper) \/ (is_span /\ ~is_bg_wrapper)
       THEN <<Opened(open_tag)
               \o InlineInner(node.children, indent, uses_prefix, span_tag)
               \o Closed(tag)>>
       ELSE IF is_p \/ is_bg_wrapper
       THEN <<ind \o Opened(open_tag)>>
            \o LineItems(merged_nodes(node, is_bg_wrapper), indent, uses_prefix, span_tag)
            \o <<ind \o Closed(tag)>>
       ELSE IF (is_text_only \/ is_itunes_text) /\ ~is_p /\ ~is_bg_wrapper
       THEN LET inner == strip(TextOnlyInner(node.children, uses_prefix))
            IN IF inner # <<>> THEN <<ind \o Opened(open_tag) \o inner \o Closed(tag)>>
               ELSE <<ind \o Opened(open_tag) \o Closed(tag)>>
       ELSE <<ind \o Opened(open_tag)>>
            \o StructuralChildren(node.children, indent, uses_prefix)
            \o <<ind \o Closed(tag)>>

RECURSIVE detect_prefix(_)
\* detect_prefix: some element at any depth has a tag that starts with tt:
detect_prefix(nodes) ==
    \E i \in 1..Len(nodes) :
        /\ ~nodes[i].isText
        /\ \/ startswith(nodes[i].tag, <<"t", "t", ":">>)
           \/ detect_prefix(nodes[i].children)

RECURSIVE FormatTop(_, _)
\* lines 472-477: the lines of the top-level nodes
FormatTop(nodes, uses_prefix) ==
    IF nodes = <<>> THEN <<>>
    ELSE format_node(Head(nodes), 0, uses_prefix, FALSE, FALSE)
         \o FormatTop(Tail(nodes), uses_prefix)

\* has_xml_decl (lines 470-474): some top-level node is a processing
\* instruction, whatever its target
has_xml_decl(nodes) ==
    \E i \in 1..Len(nodes) :
        ~nodes[i].isText /\ nodes[i].is_processing_instruction

\* lines 469-484: the text of the lines, the declaration put first when no
\* top-level processing instruction was seen
RenderLines(nodes, uses_prefix, has_decl) ==
    JoinWith((IF has_decl THEN <<>> ELSE <<XML_DECL>>) \o FormatTop(nodes, uses_prefix),
             <<"\n">>) \o <<"\n">>

\* lines 464-467: content is returned as it is when nothing was parsed
FormatParsed(content, nodes) ==
    IF nodes = <<>> THEN content
    ELSE RenderLines(nodes, detect_prefix(nodes), has_xml_decl(nodes))

\* format_ttml on content that parses (lines 460-484)
format_ttml(content) == FormatParsed(content, parse_ttml(content))

DIGITS == <<"0", "1", "2", "3", "4", "5", "6", "7", "8", "9">>

RECURSIVE Str(_)
\* str(n) for a natural number, as the f-strings of main format it
Str(n) == IF n < 10 THEN <<DIGITS[n + 1]>> ELSE Str(n \div 10) \o <<DIGITS[(n % 10) + 1]>>

\* the text-run children of a node
RECURSIVE OnlyTexts(_)
OnlyTexts(children) ==
    IF children = <<>> THEN <<>>
    ELSE (IF Head(children).isText THEN <<Head(children).text>> ELSE <<>>)
         \o OnlyTexts(Tail(children))

(***************************************************************************)
(* The linter.  A time is what float() gives: a decimal number m / 10^d    *)
(* kept exactly (the rounding of floats is not modelled), an infinity      *)
(* (m = 1 or -1) or not-a-number; NoValue stands for Python's None.        *)
(***************************************************************************)

NoValue == [kind |-> "none", m |-> 0, d |-> 0]
Num(m, d) == [kind |-> "num", m |-> m, d |-> d]
Inf(sign) == [kind |-> "inf", m |-> sign, d |-> 0]
NaN == [kind |-> "nan", m |-> 0, d |-> 0]

Digits == {"0", "1", "2", "3", "4", "5", "6", "7", "8", "9"}


RECURSIVE Pow10(_)
Pow10(k) == IF k <= 0 THEN 1 ELSE 10 * Pow10(k - 1)

RECURSIVE ToInt(_)
\* int() of a run of digits
ToInt(ds) == IF ds = <<>> THEN 0 ELSE 10 * ToInt(SubSeq(ds, 1, Len(ds) - 1)) + (CHOOSE v \in 0..9 : DIGITS[v + 1] = ds[Len(ds)])

\* str.lower() on the letters float() looks at
Lower(c) ==
    CASE c = "I" -> "i" [] c = "N" -> "n" [] c = "F" -> "f" [] c = "T" -> "t"
      [] c = "Y" -> "y" [] c = "A" -> "a" [] c = "E" -> "e" [] OTHER -> c

RECURSIVE DigitRun(_, _)
\* the digits of the longest digit part (digits, single underscores between
\* them) of s that starts at position i, as [digits, stop]
DigitRun(s, i) ==
    IF i > Len(s) \/ s[i] \notin Digits THEN [digits |-> <<>>, stop |-> i]
    ELSE LET j    == IF i + 2 <= Len(s) /\ s[i + 1] = "_" /\ s[i + 2] \in Digits
                     THEN i + 2 ELSE i + 1
             rest == DigitRun(s, j)
         IN IF j = i + 1 /\ (j > Len(s) \/ s[j] \notin Digits)
            THEN [digits |-> <<s[i]>>, stop |-> j]
            ELSE [digits |-> <<s[i]>> \o rest.digits, stop |-> rest.stop]

\* the value of a number whose parts were found in body: the digits ip
\* before the point, fp after it and ep of the exponent of sign esign
FloatValue(sign, body, ip, fp, hasExp, esign, ep) ==
    IF ~(/\ ip.digits # <<>> \/ fp.digits # <<>>
         /\ hasExp => ep.digits # <<>>
         /\ ep.stop = Len(body) + 1)
    THEN NoValue
    ELSE IF Len(fp.digits) - esign * ToInt(ep.digits) >= 0
    THEN Num(sign * ToInt(ip.digits \o fp.digits), Len(fp.digits) - esign * ToInt(ep.digits))
    ELSE Num(sign * ToInt(ip.digits \o fp.digits)
                  * Pow10(esign * ToInt(ep.digits) - Len(fp.digits)), 0)

\* the exponent, if there is one after the fraction
FloatExponent(sign, body, ip, fp) ==
    IF fp.stop <= Len(body) /\ body[fp.stop] \in {"e", "E"}
    THEN IF fp.stop + 1 <= Len(body) /\ body[fp.stop + 1] \in {"+", "-"}
         THEN FloatValue(sign, body, ip, fp, TRUE,
                         IF body[fp.stop + 1] = "-" THEN -1 ELSE 1, DigitRun(body, fp.stop + 2))
         ELSE FloatValue(sign, body, ip, fp, TRUE, 1, DigitRun(body, fp.stop + 1))
    ELSE FloatValue(sign, body, ip, fp, FALSE, 1, [digits |-> <<>>, stop |-> fp.stop])

\* the fraction, if there is a point after the whole part
FloatFraction(sign, body, ip) ==
    IF ip.stop <= Len(body) /\ body[ip.stop] = "."
    THEN FloatExponent(sign, body, ip, DigitRun(body, ip.stop + 1))
    ELSE FloatExponent(sign, body, ip, [digits |-> <<>>, stop |-> ip.stop])

\* what follows the sign: a word for an infinity or not-a-number, or a number
FloatBody(sign, body) ==
    IF [i \in 1..Len(body) |-> Lower(body[i])]
           \in {<<"i", "n", "f">>, <<"i", "n", "f", "i", "n", "i", "t", "y">>}
    THEN Inf(sign)
    ELSE IF [i \in 1..Len(body) |-> Lower(body[i])] = <<"n", "a", "n">> THEN NaN
    ELSE FloatFraction(sign, body, DigitRun(body, 1))

\* float(text): the value, or NoValue where float raises ValueError
float(text) ==
    IF strip(text) # <<>> /\ strip(text)[1] \in {"+", "-"}
    THEN FloatBody(IF strip(text)[1] = "-" THEN -1 ELSE 1, Tail(strip(text)))
    ELSE FloatBody(1, strip(text))

\* a * k for a float a and a positive whole number k
Times(a, k) == IF a.kind = "num" THEN Num(a.m * k, a.d) ELSE a

\* a + b for two floats
Plus(a, b) ==
    IF a.kind = "nan" \/ b.kind = "nan" THEN NaN
    ELSE IF a.kind = "inf" /\ b.kind = "inf" THEN IF a.m = b.m THEN a ELSE NaN
    ELSE IF a.kind = "inf" THEN a
    ELSE IF b.kind = "inf" THEN b
    ELSE IF a.d >= b.d THEN Num(a.m + b.m * Pow10(a.d - b.d), a.d)
    ELSE Num(a.m * Pow10(b.d - a.d) + b.m, b.d)

\* a > b for two floats
Greater(a, b) ==
    IF a.kind = "nan" \/ b.kind = "nan" THEN FALSE
    ELSE IF a.kind = "inf" THEN a.m = 1 /\ ~(b.kind = "inf" /\ b.m = 1)
    ELSE IF b.kind = "inf" THEN b.m = -1
    ELSE IF a.d >= b.d THEN a.m > b.m * Pow10(a.d - b.d)
    ELSE a.m * Pow10(b.d - a.d) > b.m

\* a >= b for two floats
GreaterEq(a, b) ==
    IF a.kind = "nan" \/ b.kind = "nan" THEN FALSE
    ELSE ~Greater(b, a)

RECURSIVE split(_, _)
\* s.split(sep) for a separator of one character
split(s, sep) ==
    LET i == find(s, <<sep>>, 1)
    IN IF i = 0 THEN <<s>> ELSE <<Slice(s, 1, i - 1)>> \o split(SliceFrom(s, i + 1), sep)

\* an attribute value as dict(attrs).get(name) gives it: has is FALSE for None

\* dict(attrs).get(name): the value of the last pair of that name
get(attrs, name) ==
    LET at == {i \in 1..Len(attrs) : attrs[i][1] = name}
    IN IF at = {} THEN [has |-> FALSE, value |-> <<>>]
       ELSE [has |-> TRUE, value |-> attrs[CHOOSE i \in at : \A j \in at : j <= i][2]]

\* parse_timestamp, with zero seconds for a time of more than three parts
parse_timestamp_zero(ts) ==
    LET parts == split(strip(ts.value), ":")
        f1 == float(parts[1])
        f2 == float(parts[2])
        f3 == float(parts[3])
    IN IF ~ts.has THEN NoValue
       ELSE IF Len(parts) = 1 THEN f1
       ELSE IF Len(parts) = 2
       THEN IF f1.kind = "none" \/ f2.kind = "none" THEN NoValue
            ELSE Plus(Times(f1, 60), f2)
       ELSE IF Len(parts) = 3
       THEN IF f1.kind = "none" \/ f2.kind = "none" \/ f3.kind = "none" THEN NoValue
            ELSE Plus(Plus(Times(f1, 3600), Times(f2, 60)), f3)
       ELSE Num(0, 0)

\* parse_timestamp (lines 489-504) of an attribute that may be absent
parse_timestamp(ts) ==
    LET parts == split(strip(ts.value), ":")
        f1 == float(parts[1])
        f2 == float(parts[2])
        f3 == float(parts[3])
    IN IF ~ts.has THEN NoValue
       ELSE IF Len(parts) = 1 THEN f1
       ELSE IF Len(parts) = 2
       THEN IF f1.kind = "none" \/ f2.kind = "none" THEN NoValue
            ELSE Plus(Times(f1, 60), f2)
       ELSE IF Len(parts) = 3
       THEN IF f1.kind = "none" \/ f2.kind = "none" \/ f3.kind = "none" THEN NoValue
            ELSE Plus(Plus(Times(f1, 3600), Times(f2, 60)), f3)
       ELSE NoValue

RECURSIVE collect_p_elements(_, _)
\* collect_p_elements (lines 517-524)
collect_p_elements(node_list, p_tag) ==
    IF node_list = <<>> THEN <<>>
    ELSE LET n == Head(node_list)
         IN (IF n.isText THEN <<>>
             ELSE (IF n.tag = p_tag THEN <<n>> ELSE <<>>)
                  \o collect_p_elements(n.children, p_tag))
            \o collect_p_elements(Tail(node_list), p_tag)

RECURSIVE collect_spans_with_wrappers(_, _)
\* collect_spans, with the background-vocal wrappers kept
collect_spans_with_wrappers(node_list, tag) ==
    IF node_list = <<>> THEN <<>>
    ELSE LET n == Head(node_list)
         IN (IF n.isText THEN <<>>
             ELSE (IF n.tag = tag
                   THEN <<n>> ELSE <<>>)
                  \o collect_spans_with_wrappers(n.children, tag))
            \o collect_spans_with_wrappers(Tail(node_list), tag)

RECURSIVE collect_spans(_, _)
\* collect_spans (lines 557-564)
collect_spans(node_list, tag) ==
    IF node_list = <<>> THEN <<>>
    ELSE LET n == Head(node_list)
         IN (IF n.isText THEN <<>>
             ELSE (IF n.tag = tag /\ ~\E i \in 1..Len(n.attrs) : n.attrs[i][2] = X_BG
                   THEN <<n>> ELSE <<>>)
                  \o collect_spans(n.children, tag))
            \o collect_spans(Tail(node_list), tag)

ITUNES_KEY == <<"i", "t", "u", "n", "e", "s", ":", "k", "e", "y">>
BEGIN == <<"b", "e", "g", "i", "n">>
END == <<"e", "n", "d">>

\* what opens every warning: two spaces, the character U+26A0, a space
WarningHead == <<" ", " ", "U+26A0", " ">>

RECURSIVE line_keys(_)
\* keys (lines 529-533): the non-empty itunes:key values of the lines
line_keys(p_elements) ==
    IF p_elements = <<>> THEN <<>>
    ELSE LET key == get(Head(p_elements).attrs, ITUNES_KEY)
         IN (IF key.has /\ key.value # <<>> THEN <<key.value>> ELSE <<>>)
            \o line_keys(Tail(p_elements))

RECURSIVE duplicate_warnings_every_carrier(_, _)
\* duplicate_warnings, warning at every line that shares its key
duplicate_warnings_every_carrier(keys, i) ==
    IF i > Len(keys) THEN <<>>
    ELSE (IF \E j \in (1..Len(keys)) \ {i} : keys[j] = keys[i]
          THEN <<WarningHead \o <<"D", "u", "p", "l", "i", "c", "a", "t", "e", " ", "i", "t", "u", "n", "e", "s", ":", "k", "e", "y", ":", " ">> \o keys[i]>>
          ELSE <<>>)
         \o duplicate_warnings_every_carrier(keys, i + 1)

RECURSIVE duplicate_warnings(_, _)
\* lines 536-541: one warning for every key already seen, from position i on
duplicate_warnings(keys, i) ==
    IF i > Len(keys) THEN <<>>
    ELSE (IF \E j \in 1..(i - 1) : keys[j] = keys[i]
          THEN <<WarningHead \o <<"D", "u", "p", "l", "i", "c", "a", "t", "e", " ", "i", "t", "u", "n", "e", "s", ":", "k", "e", "y", ":", " ">> \o keys[i]>>
          ELSE <<>>)
         \o duplicate_warnings(keys, i + 1)

\* nums (lines 544-548), as a set: int(m.group(1)) of every key that
\* re.match(r"L(\d+)", k) matches
key_numbers(keys) ==
    {ToInt(Slice(keys[i], 2, SkipWhile(keys[i], Digits, 2) - 1)) :
        i \in {j \in 1..Len(keys) :
                  Len(keys[j]) >= 2 /\ keys[j][1] = "L" /\ keys[j][2] \in Digits}}


RECURSIVE Sorted(_)
\* sorted(S) for a set of numbers
Sorted(S) ==
    IF S = {} THEN <<>>
    ELSE LET least == CHOOSE x \in S : \A y \in S : x <= y
         IN <<least>> \o Sorted(S \ {least})

\* str() of a list of numbers
ListStr(ns) == <<"[">> \o JoinWith([i \in 1..Len(ns) |-> Str(ns[i])], <<",", " ">>) \o <<"]">>

\* missing_warnings, with the report suppressed from ten missing numbers on
missing_warnings_under_ten(nums) ==
    LET missing == IF nums = {} THEN {} ELSE (1..(CHOOSE x \in nums : \A y \in nums : y <= x)) \ nums
    IN IF missing # {} /\ Cardinality(missing) < 10
       THEN <<WarningHead \o <<"M", "i", "s", "s", "i", "n", "g", " ", "i", "t", "u", "n", "e", "s", ":", "k", "e", "y", " ", "n", "u", "m", "b", "e", "r", "s", ":", " ">> \o ListStr(Sorted(missing))>>
       ELSE <<>>

\* lines 549-554: the warning about the numbers missing from 1..max
missing_warnings(nums) ==
    LET missing == IF nums = {} THEN {} ELSE (1..(CHOOSE x \in nums : \A y \in nums : y <= x)) \ nums
    IN IF missing # {} /\ Cardinality(missing) <= 10
       THEN <<WarningHead \o <<"M", "i", "s", "s", "i", "n", "g", " ", "i", "t", "u", "n", "e", "s", ":", "k", "e", "y", " ", "n", "u", "m", "b", "e", "r", "s", ":", " ">> \o ListStr(Sorted(missing))>>
       ELSE <<>>

RECURSIVE ReprBody(_, _)
\* the characters of repr(text) between its quotes
ReprBody(text, quote) ==
    IF text = <<>> THEN <<>>
    ELSE LET c == Head(text)
         IN (IF c = "\n" THEN <<"\\", "n">>
             ELSE IF c = "\r" THEN <<"\\", "r">>
             ELSE IF c = "\t" THEN <<"\\", "t">>
             ELSE IF c = "\\" THEN <<"\\", "\\">>
             ELSE IF c = quote THEN <<"\\", c>>
             ELSE <<c>>)
            \o ReprBody(Tail(text), quote)

\* repr(text): in single quotes, unless text holds one and no double quote
repr(text) ==
    LET quote == IF Contains(text, "'") /\ ~Contains(text, "\"") THEN "\"" ELSE "'"
    IN <<quote>> \o ReprBody(text, quote) \o <<quote>>


\* p_key (line 570): the key of the line, else its begin, else "?"
p_key_of(p_attrs) ==
    IF get(p_attrs, ITUNES_KEY).has THEN get(p_attrs, ITUNES_KEY).value
    ELSE IF get(p_attrs, BEGIN).has THEN get(p_attrs, BEGIN).value
    ELSE <<"?">>

\* line_warning, without a warning for equal times
line_warning_strict(p_attrs) ==
    IF /\ parse_timestamp(get(p_attrs, BEGIN)).kind # "none"
       /\ parse_timestamp(get(p_attrs, END)).kind # "none"
       /\ Greater(parse_timestamp(get(p_attrs, BEGIN)), parse_timestamp(get(p_attrs, END)))
    THEN <<WarningHead \o <<"[">> \o p_key_of(p_attrs) \o <<"]", " ", "p", " ", "b", "e", "g", "i", "n", " ", ">", "=", " ", "e", "n", "d", ":", " ">>
           \o get(p_attrs, BEGIN).value \o <<" ", ">", "=", " ">> \o get(p_attrs, END).value>>
    ELSE <<>>

\* lines 572-574: the warning of a line whose begin is not before its end
line_warning(p_attrs) ==
    IF /\ parse_timestamp(get(p_attrs, BEGIN)).kind # "none"
       /\ parse_timestamp(get(p_attrs, END)).kind # "none"
       /\ GreaterEq(parse_timestamp(get(p_attrs, BEGIN)), parse_timestamp(get(p_attrs, END)))
    THEN <<WarningHead \o <<"[">> \o p_key_of(p_attrs) \o <<"]", " ", "p", " ", "b", "e", "g", "i", "n", " ", ">", "=", " ", "e", "n", "d", ":", " ">>
           \o get(p_attrs, BEGIN).value \o <<" ", ">", "=", " ">> \o get(p_attrs, END).value>>
    ELSE <<>>

RECURSIVE span_warnings(_, _)
\* lines 577-584: the warnings of the spans of a line whose begin is after
\* their end
span_warnings(spans, p_key) ==
    IF spans = <<>> THEN <<>>
    ELSE LET s_attrs == Head(spans).attrs
         IN (IF /\ parse_timestamp(get(s_attrs, BEGIN)).kind # "none"
                /\ parse_timestamp(get(s_attrs, END)).kind # "none"
                /\ Greater(parse_timestamp(get(s_attrs, BEGIN)),
                           parse_timestamp(get(s_attrs, END)))
             THEN <<WarningHead \o <<"[">> \o p_key \o <<"]", " ", "s", "p", "a", "n", " ", "b", "e", "g", "i", "n", " ", ">", " ", "e", "n", "d", ":", " ">>
                    \o get(s_attrs, BEGIN).value \o <<" ", ">", " ">> \o get(s_attrs, END).value
                    \o <<" ", "(", "t", "e", "x", "t", ":", " ">> \o repr(Concat(OnlyTexts(Head(spans).children)))
                    \o <<")">> >>
             ELSE <<>>)
            \o span_warnings(Tail(spans), p_key)

RECURSIVE timing_warnings(_, _)
\* lines 566-584: for every line its own warning, then those of its spans
timing_warnings(p_elements, span_tag) ==
    IF p_elements = <<>> THEN <<>>
    ELSE line_warning(Head(p_elements).attrs)
         \o span_warnings(collect_spans(Head(p_elements).children, span_tag),
                          p_key_of(Head(p_elements).attrs))
         \o timing_warnings(Tail(p_elements), span_tag)

\* the warnings of the lines of a document (lines 526-584)
WarningsOf(p_elements, span_tag) ==
    duplicate_warnings(line_keys(p_elements), 1)
    \o missing_warnings(key_numbers(line_keys(p_elements)))
    \o timing_warnings(p_elements, span_tag)

\* lint_warnings (lines 507-586) on content that parses
LintParsed(nodes) ==
    WarningsOf(collect_p_elements(nodes, IF detect_prefix(nodes) THEN TT_P ELSE P_TAG),
               IF detect_prefix(nodes) THEN TT_SPAN ELSE SPAN_TAG)

lint_warnings(content, filepath) == LintParsed(parse_ttml(content))

(***************************************************************************)
(* The documents the formatter is run on: lines and blocks built from      *)
(* children, tags built from attributes, and top levels built from         *)
(* declarations, instructions, comments and elements.                      *)
(***************************************************************************)

\* the most children of a generated line or block
MaxItems == 3
\* the most attributes of a generated tag
MaxAttrs == 3
\* the most top-level constructs of a generated document
MaxTop == 3


BodyItems ==
    {
      \* a word span
      <<"<", "s", "p", "a", "n", ">", "T", "a", "k", "<", "/", "s", "p", "a", "n", ">">>,
      \* a word span
      <<"<", "s", "p", "a", "n", ">", "a", "d", "a", "<", "/", "s", "p", "a", "n", ">">>,
      \* a single space between two children
      <<" ">>,
      \* a loose text run with a leading space and a line break
      <<" ", "b", "\n">>,
      \* a background-vocal wrapper with doubled parentheses
      <<"<", "s", "p", "a", "n", " ", "t", "t", "m", ":", "r", "o", "l", "e", "=", "\"", "x", "-", "b", "g", "\"", ">", "(", "(", "e", ")", ")", "<", "/", "s", "p", "a", "n", ">">>,
      \* a background-vocal wrapper nested in a word span
      <<"<", "s", "p", "a", "n", ">", "x", "<", "s", "p", "a", "n", " ", "t", "t", "m", ":", "r", "o", "l", "e", "=", "\"", "x", "-", "b", "g", "\"", ">", "y", "<", "/", "s", "p", "a", "n", ">", "<", "/", "s", "p", "a", "n", ">">>,
      \* a self-closed span
      <<"<", "s", "p", "a", "n", "/", ">">>,
      \* the indentation an earlier formatting pass leaves
      <<"\n", " ", " ">>,
      \* a loose text run with doubled parentheses
      <<"(", "(", "b", ")", ")">>,
      \* a background-vocal wrapper with an attribute value of two parentheses
      \* and, one level down, a run of three
      <<"<", "s", "p", "a", "n", " ", "t", "t", "m", ":", "r", "o", "l", "e", "=", "\"", "x", "-", "b", "g", "\"", " ", "a", "=", "\"", "(", "(", "\"", ">", "<", "s", "p", "a", "n", ">", "(", "(", "(", "e", "<", "/", "s", "p", "a", "n", ">", "<", "/", "s", "p", "a", "n", ">">>
    }


AttrItems ==
    {
      <<"e", "n", "d", "=", "\"", "2", "\"">>,
      <<"b", "e", "g", "i", "n", "=", "\"", "1", "\"">>,
      <<"f", "o", "r", "=", "\"", "f", "\"">>,
      <<"t", "y", "p", "e", "=", "\"", "t", "\"">>,
      <<"b", "=", "\"", "4", "\"">>,
      <<"a", "=", "\"", "3", "\"">>,
      \* a value that holds two spaces
      <<"d", "=", "\"", "x", " ", " ", "y", "\"">>,
      \* a value in single quotes that holds a double quote
      <<"c", "=", "'", "x", "\"", "y", "'">>
    }


TopItems ==
    {
      <<"<", "?", "x", "m", "l", "?", ">">>,
      <<"<", "?", "x", "m", "l", " ", "e", "n", "c", "o", "d", "i", "n", "g", "=", "\"", "x", "\"", "?", ">">>,
      <<"<", "?", "f", "o", "o", "?", ">">>,
      <<"<", "p", "/", ">">>,
      <<"<", "!", "-", "-", "c", "-", "-", ">">>,
      <<"\n">>,
      \* an empty tag, on which the parser raises
      <<"<", ">">>
    }

\* the sequences over S of length at most n
SeqsUpTo(S, n) == UNION {[1..k -> S] : k \in 0..n}

\* <root>children</root> for the root tags p (a line) and div (a block)
BodyDocs ==
    {Opened(root) \o Concat(body) \o Closed(root) :
        root \in {P_TAG, <<"d", "i", "v">>}, body \in SeqsUpTo(BodyItems, MaxItems)}

\* <p attributes/>
AttrDocs ==
    {IF attrs = <<>> THEN SelfClosed(P_TAG)
     ELSE SelfClosed(P_TAG \o <<" ">> \o JoinWith(attrs, <<" ">>)) :
        attrs \in SeqsUpTo(AttrItems, MaxAttrs)}

TopDocs == {Concat(top) : top \in SeqsUpTo(TopItems, MaxTop)}

Docs == BodyDocs \cup AttrDocs \cup TopDocs

(***************************************************************************)
(* The texts the parser is run on by itself: every concatenation of a few  *)
(* fragments of markup, well formed or not.                                *)
(***************************************************************************)

\* the most fragments of a generated text
MaxTokens == 4

ParseTokens ==
    { <<"<", "p", ">">>, <<"<">>, <<">">>, <<"<", "?">>, <<"?", ">">>,
      <<"<", "!", "-", "-">>, <<"-", "-", ">">>, <<"/">>, <<"\"">>, <<"p">>, <<" ">> }

ParseDocs == {Concat(toks) : toks \in SeqsUpTo(ParseTokens, MaxTokens)}

(***************************************************************************)
(* The command line: process_file and main.  A stored file is the text of  *)
(* its bytes; what a run prints is the sequence of the texts it hands to   *)
(* print.                                                                  *)
(***************************************************************************)


\* what open(filepath, "r") hands to read(): universal newlines
read_text(stored) == replace(replace(stored, <<"\r", "\n">>, <<"\n">>), <<"\r">>, <<"\n">>)

\* original_normalized
normalize(original) == replace(replace(original, <<"\r", "\n">>, <<"\n">>), <<"\r">>, <<"\n">>)

\* process_file rewrites the file
WritesFile_in_check(has_changes, fix_flag, check_flag) == has_changes /\ (fix_flag \/ check_flag)

WritesFile(has_changes, fix_flag, check_flag) == has_changes /\ fix_flag

\* process_file prints a diff
PrintsDiff(has_changes, fix_flag, check_flag) == has_changes /\ ~fix_flag /\ ~check_flag

\* the head of the unified diff of a changed file; with lineterm="" its two
\* header lines and the hunks that follow are joined without a line break
\* (the hunks themselves are not part of the model)
DiffHead(filepath) ==
    <<"-", "-", "-", " ", "a", "/">> \o filepath \o <<"+", "+", "+", " ", "b", "/">> \o filepath

\* open(filepath, "r", encoding="utf-8").read() raises UnicodeDecodeError:
\* the stored bytes are no UTF-8 text ("0xFF" stands for the byte FF)
ReadRaises(stored) == \E i \in 1..Len(stored) : stored[i] = "0xFF"

\* str(e) of the exception process_file raises on a stored file: of the
\* UnicodeDecodeError of read(), else of the IndexError of parse_ttml
ErrorMessage(stored) ==
    IF ReadRaises(stored)
    THEN <<"'", "u", "t", "f", "-", "8", "'", " ", "c", "o", "d", "e", "c", " ", "c", "a", "n", "'", "t", " ", "d", "e", "c", "o", "d", "e", " ", "b", "y", "t", "e", " ", "0", "x", "f", "f", " ", "i", "n", " ", "p", "o", "s", "i", "t", "i", "o", "n", " ", "0", ":", " ", "i", "n", "v", "a", "l", "i", "d", " ", "s", "t", "a", "r", "t", " ", "b", "y", "t", "e">>
    ELSE <<"l", "i", "s", "t", " ", "i", "n", "d", "e", "x", " ", "o", "u", "t", " ", "o", "f", " ", "r", "a", "n", "g", "e">>

\* the line the except clause of main prints (line 675)
ERROR_LINE(filepath, message) == <<"E", "R", "R", "O", "R", " ">> \o filepath \o <<":", " ">> \o message

FIXED_LINE(filepath) == <<" ", " ", "U+2713">> \o <<" ", "F", "i", "x", "e", "d", ":", " ">> \o filepath

NEEDS_LINE(filepath) == <<" ", " ", "U+2717">> \o <<" ", "N", "e", "e", "d", "s", " ", "f", "o", "r", "m", "a", "t", "t", "i", "n", "g", ":", " ">> \o filepath

WOULD_LINE(filepath) == <<" ", " ", "~", " ", "W", "o", "u", "l", "d", " ", "c", "h", "a", "n", "g", "e", ":", " ">> \o filepath

\* the per-file line of main (lines 678-685)
StatusLine(filepath, fix_flag, check_flag) ==
    IF fix_flag THEN FIXED_LINE(filepath)
    ELSE IF check_flag THEN NEEDS_LINE(filepath)
    ELSE WOULD_LINE(filepath)

\* the summary line of main (lines 692-697)
SummaryLine(n_changed, total, fix_flag, check_flag) ==
    IF fix_flag THEN <<"F", "i", "x", "e", "d", " ">> \o Str(n_changed) \o <<"/">> \o Str(total) \o <<" ", "f", "i", "l", "e", "s", ".">>
    ELSE IF check_flag
    THEN Str(n_changed) \o <<"/">> \o Str(total) \o <<" ", "f", "i", "l", "e", "s", " ", "n", "e", "e", "d", " ", "f", "o", "r", "m", "a", "t", "t", "i", "n", "g", ".">>
    ELSE Str(n_changed) \o <<"/">> \o Str(total) \o <<" ", "f", "i", "l", "e", "s", " ", "w", "o", "u", "l", "d", " ", "c", "h", "a", "n", "g", "e", ".">>

\* the exit status of a run that reaches the end of main (lines 708-709)
ExitStatus(n_changed, check_flag) == IF check_flag /\ n_changed > 0 THEN 1 ELSE 0

\* the warnings block is printed (line 700)
ShowsWarnings(file_warnings, warnings_flag, check_flag) ==
    file_warnings # <<>> /\ (warnings_flag \/ ~check_flag)

RECURSIVE WarningsBlock(_)
\* what lines 701-706 print for the files with warnings from the first on
\* (the two prints of lines 701-702 come before the first file)
WarningsBlock(file_warnings) ==
    IF file_warnings = <<>> THEN << <<>>, <<"L", "i", "n", "t", " ", "w", "a", "r", "n", "i", "n", "g", "s", ":">> >>
    ELSE WarningsBlock(SubSeq(file_warnings, 1, Len(file_warnings) - 1))
         \o << <<"\n", " ", " ">> \o file_warnings[Len(file_warnings)][1] \o <<":">> >>
         \o [i \in 1..Len(file_warnings[Len(file_warnings)][2]) |->
                <<" ", " ", " ", " ">> \o file_warnings[Len(file_warnings)][2][i]]

NO_FILES_LINE == <<"N", "o", " ", ".", "t", "t", "m", "l", " ", "f", "i", "l", "e", "s", " ", "f", "o", "u", "n", "d", ".">>

\* the first line of the text print_help writes
USAGE_LINE == <<"u", "s", "a", "g", "e", ":", " ", "l", "i", "n", "t", "_", "t", "t", "m", "l", ".", "p", "y", " ", "[", "-", "h", "]", " ", "[", "-", "-", "f", "i", "x", "]", " ", "[", "-", "-", "c", "h", "e", "c", "k", "]", " ", "[", "-", "-", "a", "l", "l", "]", " ", "[", "-", "-", "w", "a", "r", "n", "i", "n", "g", "s", "]", " ", "[", "f", "i", "l", "e", "s", " ", ".", ".", ".", "]">>

\* the path main is handed for the i-th stored file: os.path.join(".", f)
\* under --all, the name as given otherwise
PathName(i, all_flag) ==
    (IF all_flag THEN <<".", "/">> ELSE <<>>) \o Str(i) \o <<".", "t", "t", "m", "l">>

(***************************************************************************)
(* The files the command line is run on.                                   *)
(***************************************************************************)

\* the most files of a generated directory
MaxFiles == 2
\* the most invocations in a row
MaxRuns == 2


Corpus ==
    {
      \* a file in canonical form, whose line begins after it ends
      XML_DECL \o <<"\n">> \o <<"<", "p", " ", "b", "e", "g", "i", "n", "=", "\"", "2", "\"", " ", "e", "n", "d", "=", "\"", "1", "\"", "/", ">">> \o <<"\n">>,
      \* a file the formatter changes once, its line ended by CR LF
      <<"<", "p", "/", ">", "\r", "\n">>,
      \* a block that holds a single space
      <<"<", "d", "i", "v", ">", " ", "<", "/", "d", "i", "v", ">">>,
      \* an empty tag
      <<"<", ">">>,
      \* a file that is no UTF-8 text
      <<"0xFF">>
    }

\* what is stored when the command is first invoked: up to MaxFiles files
\* of the corpus, no two of them alike
Directories ==
    {stored \in SeqsUpTo(Corpus, MaxFiles) :
        \A i \in 1..Len(stored) : \A j \in 1..Len(stored) : i # j => stored[i] # stored[j]}

(***************************************************************************)
(* The documents the linter is run on: lines that carry keys, and a line   *)
(* with timed spans.                                                       *)
(***************************************************************************)

\* the most lines of a generated document
MaxLines == 4
\* the most spans of a generated line
MaxSpans == 2

\* the key attribute of a line: none, four numbered keys, a key without number
LineKeys ==
    {
      <<>>,
      <<" ", "i", "t", "u", "n", "e", "s", ":", "k", "e", "y", "=", "\"", "L", "1", "\"">>,
      <<" ", "i", "t", "u", "n", "e", "s", ":", "k", "e", "y", "=", "\"", "L", "2", "\"">>,
      <<" ", "i", "t", "u", "n", "e", "s", ":", "k", "e", "y", "=", "\"", "L", "3", "\"">>,
      <<" ", "i", "t", "u", "n", "e", "s", ":", "k", "e", "y", "=", "\"", "L", "1", "2", "\"">>,
      <<" ", "i", "t", "u", "n", "e", "s", ":", "k", "e", "y", "=", "\"", "x", "\"">>
    }

\* lines with keys and nothing else
KeyDocs ==
    {Concat([i \in 1..Len(keys) |-> SelfClosed(P_TAG \o keys[i])]) :
        keys \in SeqsUpTo(LineKeys, MaxLines)}

\* the timing attributes of a line or span
TimePairs ==
    {
      \* begin before end
      <<" ", "b", "e", "g", "i", "n", "=", "\"", "0", "0", ":", "0", "4", ".", "0", "0", "0", "\"", " ", "e", "n", "d", "=", "\"", "0", "0", ":", "0", "5", ".", "0", "0", "0", "\"">>,
      \* begin after end
      <<" ", "b", "e", "g", "i", "n", "=", "\"", "0", "0", ":", "0", "5", ".", "0", "0", "0", "\"", " ", "e", "n", "d", "=", "\"", "0", "0", ":", "0", "4", ".", "0", "0", "0", "\"">>,
      \* the same time as bare seconds and with hours
      <<" ", "b", "e", "g", "i", "n", "=", "\"", "5", "\"", " ", "e", "n", "d", "=", "\"", "0", ":", "0", "0", ":", "0", "5", "\"">>,
      \* a begin that is no number
      <<" ", "b", "e", "g", "i", "n", "=", "\"", "a", "b", "c", "\"", " ", "e", "n", "d", "=", "\"", "0", "0", ":", "0", "4", ".", "0", "0", "0", "\"">>,
      \* an end of four components
      <<" ", "b", "e", "g", "i", "n", "=", "\"", "0", "0", ":", "0", "5", ".", "0", "0", "0", "\"", " ", "e", "n", "d", "=", "\"", "1", ":", "2", ":", "3", ":", "4", "\"">>,
      \* no end
      <<" ", "b", "e", "g", "i", "n", "=", "\"", "0", "0", ":", "0", "5", ".", "0", "0", "0", "\"">>
    }

\* the timing attributes of a wrapper and of the span in one: begin before
\* end, begin after end
WrapperPairs ==
    {pair \in TimePairs :
        /\ find(pair, <<"0", "0", ":", "0", "4", ".", "0", "0", "0">>, 1) # 0
        /\ find(pair, <<"0", "0", ":", "0", "5", ".", "0", "0", "0">>, 1) # 0}

\* a word span, a background-vocal wrapper, and a word span in a wrapper
SpanItems ==
    {Opened(SPAN_TAG \o pair) \o <<"l", "a">> \o Closed(SPAN_TAG) : pair \in TimePairs}
    \cup {Opened(SPAN_TAG \o <<" ", "t", "t", "m", ":", "r", "o", "l", "e", "=", "\"", "x", "-", "b", "g", "\"">> \o pair) \o <<"o", "h">> \o Closed(SPAN_TAG) :
             pair \in WrapperPairs}
    \cup {Opened(SPAN_TAG \o <<" ", "t", "t", "m", ":", "r", "o", "l", "e", "=", "\"", "x", "-", "b", "g", "\"">>) \o Opened(SPAN_TAG \o pair) \o <<"o", "h">>
          \o Closed(SPAN_TAG) \o Closed(SPAN_TAG) : pair \in WrapperPairs}

\* one timed line of timed spans
TimeDocs ==
    {Opened(P_TAG \o pair) \o Concat(spans) \o Closed(P_TAG) :
        pair \in TimePairs, spans \in SeqsUpTo(SpanItems, MaxSpans)}

LintDocs == KeyDocs \cup TimeDocs

(***************************************************************************)
(* offset_ttml.py and ttml_to_json.py: a time in seconds and its text.     *)
(***************************************************************************)

\* stands for an exception leaving parse_time
Raised == [kind |-> "raised", m |-> 0, d |-> 0]

RECURSIVE ZeroPad(_, _)
\* the zero fill of a format spec of minimum width: zeros before the digits
ZeroPad(ds, width) == IF Len(ds) >= width THEN ds ELSE ZeroPad(<<"0">> \o ds, width)

\* the thousandths the format spec .3f shows of a float that is not
\* negative: the nearest whole number of them (a decimal half is kept
\* exactly here and goes to the even one; the float of such a half lies
\* to one side of it)
Thousandths(a) ==
    IF a.d <= 3 THEN a.m * Pow10(3 - a.d)
    ELSE IF \/ 2 * (a.m % Pow10(a.d - 3)) > Pow10(a.d - 3)
            \/ /\ 2 * (a.m % Pow10(a.d - 3)) = Pow10(a.d - 3)
               /\ (a.m \div Pow10(a.d - 3)) % 2 = 1
    THEN (a.m \div Pow10(a.d - 3)) + 1
    ELSE a.m \div Pow10(a.d - 3)

\* a format_time that writes hours apart, keeping the minutes below 60
format_time_clock(seconds) ==
    ZeroPad(Str((seconds.m \div (60 * Pow10(seconds.d))) % 60), 2)
    \o <<":">>
    \o ZeroPad(Str(Thousandths(Num(seconds.m % (60 * Pow10(seconds.d)), seconds.d)) \div 1000), 2)
    \o <<".">>
    \o ZeroPad(Str(Thousandths(Num(seconds.m % (60 * Pow10(seconds.d)), seconds.d)) % 1000), 3)

\* format_time (offset_ttml.py lines 17-21, the same in ttml_to_json.py
\* lines 31-35) of a time that is not negative:
\* minutes = int(seconds // 60), secs = seconds % 60
format_time(seconds) ==
    ZeroPad(Str(seconds.m \div (60 * Pow10(seconds.d))), 2)
    \o <<":">>
    \o ZeroPad(Str(Thousandths(Num(seconds.m % (60 * Pow10(seconds.d)), seconds.d)) \div 1000), 2)
    \o <<".">>
    \o ZeroPad(Str(Thousandths(Num(seconds.m % (60 * Pow10(seconds.d)), seconds.d)) % 1000), 3)

\* the sum of the parts of a time text, Raised if float() rejects one
TimeOf(parts) ==
    IF \E i \in 1..Len(parts) : float(parts[i]).kind = "none" THEN Raised
    ELSE IF Len(parts) = 2 THEN Plus(Times(float(parts[1]), 60), float(parts[2]))
    ELSE Plus(Plus(Times(float(parts[1]), 3600), Times(float(parts[2]), 60)), float(parts[3]))

\* parse_time (ttml_to_json.py lines 16-28)
parse_time(text) ==
    IF text = <<>> THEN Num(0, 0)
    ELSE IF Len(split(text, ":")) \in {2, 3} THEN TimeOf(split(text, ":"))
    ELSE Num(0, 0)

\* parse_time (offset_ttml.py lines 7-15): two parts, and 0.0 on ValueError
offset_parse_time(text) ==
    IF text = <<>> THEN Num(0, 0)
    ELSE IF Len(split(text, ":")) # 2 THEN Num(0, 0)
    ELSE IF TimeOf(split(text, ":")) = Raised THEN Num(0, 0)
    ELSE TimeOf(split(text, ":"))

\* an element of the tree ElementTree gives: its attributes in the order of
\* the source, each a name and a value, and its child elements
Element(attrib, children) == [attrib |-> attrib, children |-> children]

\* max(0.0, a) for a finite float
max0(a) == IF a.m < 0 THEN Num(0, 0) ELSE a

\* the attributes of an element after the loop of apply_offset (lines
\* 44-50): begin and end are replaced, dur is parsed and left
shift_attrib(attrib, offset) ==
    [k \in 1..Len(attrib) |->
        IF attrib[k][1] \in {BEGIN, END}
        THEN <<attrib[k][1], format_time(max0(Plus(offset_parse_time(attrib[k][2]), offset)))>>
        ELSE attrib[k]]

RECURSIVE apply_offset(_, _)
\* apply_offset (offset_ttml.py lines 42-53): the element as it is left
apply_offset(element, offset) ==
    Element(shift_attrib(element.attrib, offset),
            [i \in 1..Len(element.children) |-> apply_offset(element.children[i], offset)])

MaxHours == 2

\* the most children of a generated element
MaxChildren == 2

\* the attributes of a generated element: none, one of begin, end and dur,
\* or begin and end; the times are given with minutes, with hours, and
\* below a tenth of a second
TimedAttribs ==
    LET texts == { <<"0", "0", ":", "0", "5", ".", "0", "0", "0">>,
                   <<"1", ":", "0", "0", ":", "0", "5", ".", "0", "0", "0">>,
                   <<"0", "0", ":", "0", "0", ".", "0", "5", "0">> }
    IN {<<>>}
       \cup {<< <<name, text>> >> : name \in {BEGIN, END, <<"d", "u", "r">>}, text \in texts}
       \cup {<< <<BEGIN, text>>, <<END, text>> >> : text \in texts}

\* an element with up to MaxChildren children
Trees ==
    {Element(attrib, children) :
        attrib \in TimedAttribs,
        children \in SeqsUpTo({Element(a, <<>>) : a \in TimedAttribs}, MaxChildren)}

\* 100 ms later, 100 ms earlier, 10 s earlier
Offsets == {Num(100, 3), Num(-100, 3), Num(-10, 0)}

\* times of whole milliseconds: the hours up to MaxHours, with minutes,
\* seconds and milliseconds at and between the ends of their ranges
Moments ==
    {Num(h * 3600000 + mi * 60000 + sec * 1000 + ms, 3) :
        h \in 0..MaxHours, mi \in {0, 1, 59}, sec \in {0, 9, 59}, ms \in {0, 1, 29, 999}}

(***************************************************************************)
(* State.                                                                  *)
(***************************************************************************)

VARIABLES
    content,      \* the text given to format_ttml or parse_ttml
    phase,        \* "input", "formatted", "reformatted", "raised"; "parse"; "cli"
    formatted,    \* format_ttml(content)
    reformatted,  \* format_ttml(formatted)
    pstate,       \* the state of the loop of parse_ttml
    store,        \* the stored text of each file, by file number
    fix,          \* args.fix
    check,        \* args.check
    all,          \* args.all
    warnings,     \* args.warnings
    files,        \* the file numbers main goes through, in order
    pc,           \* "idle"; "start", "loop", "exit": where main stands
    idx,          \* the position in files of the file processed next
    changed,      \* the counter of main
    all_warnings, \* the files with warnings so far, each with its warnings
    out,          \* the texts printed so far by this run
    exit_status,  \* the exit status of the run once it has ended
    run,          \* the number of this invocation
    store0,       \* what was stored when this run started
    errors,       \* the positions in files whose processing raised in this run
    prev,         \* the run before this one: its mode, files and errors
    linted,       \* what lint_warnings returned for content
    new_time,     \* a time in seconds, given to format_time
    time_str,     \* format_time(new_time)
    parsed,       \* parse_time(time_str) of ttml_to_json.py
    original_time, \* parse_time(time_str) of offset_ttml.py
    root,         \* the element tree apply_offset works on
    root0,        \* the tree before apply_offset
    offset_seconds \* the offset given to apply_offset

fmtVars == <<content, phase, formatted, reformatted>>

cliVars == <<store, fix, check, all, warnings, files, pc, idx, changed, all_warnings, out,
             exit_status, run, store0, errors, prev>>

timeVars == <<new_time, time_str, parsed, original_time>>

offsetVars == <<root, root0, offset_seconds>>

auxVars == <<linted, timeVars, offsetVars>>

vars == <<content, phase, formatted, reformatted, pstate, store, fix, check, all, warnings,
          files, pc, idx, changed, all_warnings, out, exit_status, run, store0, errors, prev,
          linted, new_time, time_str, parsed, original_time, root, root0, offset_seconds>>

\* nothing has been linted
AuxIdle ==
    /\ linted = <<>>
    /\ new_time = NoValue
    /\ time_str = <<>>
    /\ parsed = NoValue
    /\ original_time = NoValue
    /\ root = NoValue
    /\ root0 = NoValue
    /\ offset_seconds = NoValue

NoRun == [ran |-> FALSE, apply |-> FALSE, files |-> <<>>, errors |-> {}]

\* the command line before any invocation, over the given stored files
CliAt(stored) ==
    /\ store = stored
    /\ fix = FALSE
    /\ check = FALSE
    /\ all = FALSE
    /\ warnings = FALSE
    /\ files = <<>>
    /\ idx = 1
    /\ changed = 0
    /\ all_warnings = <<>>
    /\ out = <<>>
    /\ exit_status = 0
    /\ run = 1
    /\ store0 = stored
    /\ errors = {}
    /\ prev = NoRun

(***************************************************************************)
(* Spec: format_ttml applied to a document, and again to its own output.   *)
(***************************************************************************)

Init ==
    /\ content \in Docs
    /\ phase = "input"
    /\ formatted = <<>>
    /\ reformatted = <<>>
    /\ pstate = ParseInit
    /\ AuxIdle
    /\ pc = "idle"
    /\ CliAt(<<>>)

\* formatted = format_ttml(content); an IndexError of the parser propagates
Format ==
    /\ phase = "input"
    /\ IF ParseRaises(content)
       THEN phase' = "raised" /\ formatted' = formatted
       ELSE phase' = "formatted" /\ formatted' = format_ttml(content)
    /\ UNCHANGED <<content, reformatted, pstate, cliVars, auxVars>>

\* reformatted = format_ttml(formatted)
Reformat ==
    /\ phase = "formatted"
    /\ IF ParseRaises(formatted)
       THEN phase' = "raised" /\ reformatted' = reformatted
       ELSE phase' = "reformatted" /\ reformatted' = format_ttml(formatted)
    /\ UNCHANGED <<content, formatted, pstate, cliVars, auxVars>>

Next == Format \/ Reformat

Spec == Init /\ [][Next]_vars

(***************************************************************************)
(* SpecParse: parse_ttml run one iteration of its loop at a time.          *)
(***************************************************************************)

InitParse ==
    /\ content \in ParseDocs
    /\ phase = "parse"
    /\ formatted = <<>>
    /\ reformatted = <<>>
    /\ pstate = ParseInit
    /\ AuxIdle
    /\ pc = "idle"
    /\ CliAt(<<>>)

\* what the next iteration of the loop meets (the tests of lines 102-136)
ScanKind(c, st) ==
    LET next_lt == find(c, <<"<">>, st.pos)
    IN IF st.pos > Len(c) \/ next_lt = 0 THEN "end"
       ELSE IF StartsAt(c, <<"<", "?">>, next_lt) THEN "pi"
       ELSE IF StartsAt(c, <<"<", "!", "-", "-">>, next_lt) THEN "comment"
       ELSE IF StartsAt(c, <<"/">>, next_lt + 1) THEN "close"
       ELSE "open"

\* one iteration of the loop
Iterate ==
    /\ phase = "parse"
    /\ pstate.status = "scan"
    /\ pstate' = ParseStep(content, pstate)
    /\ UNCHANGED <<fmtVars, cliVars, auxVars>>

\* the loop ends: the input is used up, or the rest of it is text
ParseRest ==
    /\ ScanKind(content, pstate) = "end"
    /\ Iterate

\* the iteration meets <? ... ?>
ParsePI ==
    /\ ScanKind(content, pstate) = "pi"
    /\ Iterate

\* the iteration meets <!-- ... -->
ParseComment ==
    /\ ScanKind(content, pstate) = "comment"
    /\ Iterate

\* the iteration meets </ ... >
ParseClose ==
    /\ ScanKind(content, pstate) = "close"
    /\ Iterate

\* the iteration meets < ... > or < ... />
ParseOpen ==
    /\ ScanKind(content, pstate) = "open"
    /\ Iterate

NextParse == ParseRest \/ ParsePI \/ ParseComment \/ ParseClose \/ ParseOpen

SpecParse == InitParse /\ [][NextParse]_vars

\* ENABLED <<NextParse>>_vars: the loop is at an iteration that changes
\* its state
LoopCanStep ==
    phase = "parse" /\ pstate.status = "scan" /\ ParseStep(content, pstate) # pstate

\* the loop goes on as long as its condition holds, an iteration that can
\* be taken is taken: WF_vars(NextParse), written with LoopCanStep
SpecParseFair == SpecParse /\ ([]<>(~LoopCanStep) \/ []<><<NextParse>>_vars)


(***************************************************************************)
(* SpecCli: main run on a directory of files, up to MaxRuns times in a     *)
(* row.  Every run goes through all the stored files, in the order of      *)
(* their names.                                                            *)
(***************************************************************************)

InitCli ==
    /\ content = <<>>
    /\ phase = "cli"
    /\ formatted = <<>>
    /\ reformatted = <<>>
    /\ pstate = ParseInit
    /\ AuxIdle
    /\ pc = "start"
    /\ \E stored \in Directories : CliAt(stored)

\* the run has the given flags and has printed nothing yet
Invoked(fix_flag, check_flag, all_flag, warnings_flag) ==
    /\ fix' = fix_flag
    /\ check' = check_flag
    /\ all' = all_flag
    /\ warnings' = warnings_flag
    /\ idx' = 1
    /\ changed' = 0
    /\ all_warnings' = <<>>
    /\ errors' = {}
    /\ store0' = store
    /\ UNCHANGED <<store, run, prev>>

\* neither --all nor a file is given: print_help and exit(1) (lines 659-661)
Usage ==
    /\ pc = "start"
    /\ \E fix_flag \in BOOLEAN, check_flag \in BOOLEAN, warnings_flag \in BOOLEAN :
           Invoked(fix_flag, check_flag, FALSE, warnings_flag)
    /\ files' = <<>>
    /\ out' = <<USAGE_LINE>>
    /\ exit_status' = 1
    /\ pc' = "exit"
    /\ UNCHANGED <<fmtVars, pstate, auxVars>>

\* --all finds no file (lines 663-665)
NoFiles ==
    /\ pc = "start"
    /\ store = <<>>
    /\ \E fix_flag \in BOOLEAN, check_flag \in BOOLEAN, warnings_flag \in BOOLEAN :
           Invoked(fix_flag, check_flag, TRUE, warnings_flag)
    /\ files' = <<>>
    /\ out' = <<NO_FILES_LINE>>
    /\ exit_status' = 0
    /\ pc' = "exit"
    /\ UNCHANGED <<fmtVars, pstate, auxVars>>

\* the files are named, or found by --all: the loop starts (lines 655-669)
Begin ==
    /\ pc = "start"
    /\ store # <<>>
    /\ \E fix_flag \in BOOLEAN, check_flag \in BOOLEAN, all_flag \in BOOLEAN,
          warnings_flag \in BOOLEAN :
           Invoked(fix_flag, check_flag, all_flag, warnings_flag)
    /\ files' = [i \in 1..Len(store) |-> i]
    /\ out' = <<>>
    /\ pc' = "loop"
    /\ UNCHANGED <<exit_status, fmtVars, pstate, auxVars>>

\* an except clause that leaves the loop
Failed_break(filepath, message) ==
    /\ out' = Append(out, ERROR_LINE(filepath, message))
    /\ errors' = errors \cup {idx}
    /\ idx' = Len(files) + 1
    /\ UNCHANGED <<store, changed, all_warnings>>

\* process_file raised: the except clause of main prints the error and
\* continues with the next file (lines 674-676)
Failed(filepath, message) ==
    /\ out' = Append(out, ERROR_LINE(filepath, message))
    /\ errors' = errors \cup {idx}
    /\ idx' = idx + 1
    /\ UNCHANGED <<store, changed, all_warnings>>

\* process_file returned (lines 617-642), and main counts and reports the
\* file and keeps its warnings (lines 678-688)
Processed(filepath, has_changes, formatted_text, file_warnings) ==
    /\ store' = IF WritesFile(has_changes, fix, check)
                THEN [store EXCEPT ![files[idx]] = formatted_text]
                ELSE store
    /\ changed' = IF has_changes THEN changed + 1 ELSE changed
    /\ out' = out
              \o (IF PrintsDiff(has_changes, fix, check) THEN <<DiffHead(filepath)>> ELSE <<>>)
              \o (IF has_changes THEN <<StatusLine(filepath, fix, check)>> ELSE <<>>)
    /\ all_warnings' = IF file_warnings # <<>>
                       THEN Append(all_warnings, <<filepath, file_warnings>>)
                       ELSE all_warnings
    /\ idx' = idx + 1
    /\ UNCHANGED errors

\* the body of process_file from the text read (lines 612-617)
ProcessText(filepath, original_normalized) ==
    IF ParseRaises(original_normalized)
    THEN Failed(filepath, ErrorMessage(original_normalized))
    ELSE Processed(filepath,
                   original_normalized # format_ttml(original_normalized),
                   format_ttml(original_normalized),
                   lint_warnings(original_normalized, filepath))

\* one turn of the loop of main (lines 671-688)
ProcessFile ==
    /\ pc = "loop"
    /\ idx <= Len(files)
    /\ IF ReadRaises(store[files[idx]])
       THEN Failed(PathName(files[idx], all), ErrorMessage(store[files[idx]]))
       ELSE ProcessText(PathName(files[idx], all), normalize(read_text(store[files[idx]])))
    /\ UNCHANGED <<fix, check, all, warnings, files, pc, exit_status, run, store0, prev,
                   fmtVars, pstate, auxVars>>

\* after the loop: the summary and the exit status (lines 690-709)
Summary ==
    /\ pc = "loop"
    /\ idx > Len(files)
    /\ out' = out \o << <<>>, SummaryLine(changed, Len(files), fix, check) >>
                   \o (IF ShowsWarnings(all_warnings, warnings, check)
                       THEN WarningsBlock(all_warnings) ELSE <<>>)
    /\ exit_status' = ExitStatus(changed, check)
    /\ pc' = "exit"
    /\ UNCHANGED <<store, fix, check, all, warnings, files, idx, changed, all_warnings, run,
                   store0, errors, prev, fmtVars, pstate, auxVars>>

\* the command is invoked again, as a new process, on what the run before
\* it left; prev keeps whether that run went through its files, whether it
\* was in apply mode (--fix without --check), and where it failed
Again ==
    /\ pc = "exit"
    /\ run < MaxRuns
    /\ run' = run + 1
    /\ prev' = [ran |-> files # <<>>, apply |-> fix /\ ~check, files |-> files,
                errors |-> errors]
    /\ pc' = "start"
    /\ fix' = FALSE
    /\ check' = FALSE
    /\ all' = FALSE
    /\ warnings' = FALSE
    /\ files' = <<>>
    /\ idx' = 1
    /\ changed' = 0
    /\ all_warnings' = <<>>
    /\ out' = <<>>
    /\ exit_status' = 0
    /\ errors' = {}
    /\ store0' = store
    /\ UNCHANGED <<store, fmtVars, pstate, auxVars>>

NextCli == Usage \/ NoFiles \/ Begin \/ ProcessFile \/ Summary \/ Again

SpecCli == InitCli /\ [][NextCli]_vars

(***************************************************************************)
(* SpecLint: lint_warnings applied to a document.                          *)
(***************************************************************************)

InitLint ==
    /\ content \in LintDocs
    /\ phase = "lint"
    /\ formatted = <<>>
    /\ reformatted = <<>>
    /\ pstate = ParseInit
    /\ AuxIdle
    /\ pc = "idle"
    /\ CliAt(<<>>)

\* linted = lint_warnings(content, filepath)
Lint ==
    /\ phase = "lint"
    /\ phase' = "linted"
    /\ linted' = lint_warnings(content, <<>>)
    /\ UNCHANGED <<content, formatted, reformatted, pstate, cliVars, timeVars, offsetVars>>

SpecLint == InitLint /\ [][Lint]_vars

(***************************************************************************)
(* SpecPrefix: process_file formats and lints one text (lines 615-616);    *)
(* the documents are built from lines and other constructs with and        *)
(* without the tt: prefix.                                                 *)
(***************************************************************************)

\* the most top-level constructs of a document with prefixes
MaxPrefixItems == 3

PrefixItems ==
    {
      \* a line without the prefix: end before begin, a word and a space
      <<"<", "p", " ", "b", "e", "g", "i", "n", "=", "\"", "2", "\"", " ", "e", "n", "d", "=", "\"", "1", "\"", ">", "<", "s", "p", "a", "n", ">", "a", "<", "/", "s", "p", "a", "n", ">", " ", "<", "/", "p", ">">>,
      \* the same line with the prefix
      <<"<", "t", "t", ":", "p", " ", "b", "e", "g", "i", "n", "=", "\"", "2", "\"", " ", "e", "n", "d", "=", "\"", "1", "\"", ">", "<", "t", "t", ":", "s", "p", "a", "n", ">", "a", "<", "/", "t", "t", ":", "s", "p", "a", "n", ">", " ", "<", "/", "t", "t", ":", "p", ">">>,
      \* a prefixed element below an element without the prefix
      <<"<", "d", "i", "v", ">", "<", "t", "t", ":", "b", "r", "/", ">", "<", "/", "d", "i", "v", ">">>,
      \* an element without the prefix
      <<"<", "d", "i", "v", "/", ">">>,
      \* a processing instruction whose target begins with tt:
      <<"<", "?", "t", "t", ":", "x", "?", ">">>
    }

PrefixDocs == {Concat(top) : top \in SeqsUpTo(PrefixItems, MaxPrefixItems)}

InitPrefix ==
    /\ content \in PrefixDocs
    /\ phase = "normalized"
    /\ formatted = <<>>
    /\ reformatted = <<>>
    /\ pstate = ParseInit
    /\ AuxIdle
    /\ pc = "idle"
    /\ CliAt(<<>>)

\* formatted = format_ttml(original_normalized);
\* warnings = lint_warnings(original_normalized, filepath)
FormatAndLint ==
    /\ phase = "normalized"
    /\ phase' = "processed"
    /\ formatted' = format_ttml(content)
    /\ linted' = lint_warnings(content, <<>>)
    /\ UNCHANGED <<content, reformatted, pstate, cliVars, timeVars, offsetVars>>

SpecPrefix == InitPrefix /\ [][FormatAndLint]_vars

(***************************************************************************)
(* Times as text: a time is formatted, and the text is parsed by the two   *)
(* parse_time functions.                                                   *)
(***************************************************************************)

InitTime ==
    /\ content = <<>>
    /\ phase = "time"
    /\ formatted = <<>>
    /\ reformatted = <<>>
    /\ pstate = ParseInit
    /\ linted = <<>>
    /\ new_time \in Moments
    /\ time_str = <<>>
    /\ parsed = NoValue
    /\ original_time = NoValue
    /\ root = NoValue
    /\ root0 = NoValue
    /\ offset_seconds = NoValue
    /\ pc = "idle"
    /\ CliAt(<<>>)

\* time_str = format_time(new_time) (offset_ttml.py line 50)
FormatTime ==
    /\ phase = "time"
    /\ phase' = "shown"
    /\ time_str' = format_time(new_time)
    /\ UNCHANGED <<content, formatted, reformatted, pstate, cliVars, linted, new_time,
                   parsed, original_time, offsetVars>>

\* parsed = parse_time(time_str), ttml_to_json.py
ParseTime ==
    /\ phase = "shown"
    /\ parsed = NoValue
    /\ parsed' = parse_time(time_str)
    /\ UNCHANGED <<fmtVars, pstate, cliVars, linted, new_time, time_str, original_time,
                   offsetVars>>

\* original_time = parse_time(time_str), offset_ttml.py (line 46)
OffsetParseTime ==
    /\ phase = "shown"
    /\ original_time = NoValue
    /\ original_time' = offset_parse_time(time_str)
    /\ UNCHANGED <<fmtVars, pstate, cliVars, linted, new_time, time_str, parsed, offsetVars>>

NextTime == FormatTime \/ ParseTime \/ OffsetParseTime

(***************************************************************************)
(* SpecOffset: apply_offset on an element tree.                            *)
(***************************************************************************)

InitOffset ==
    /\ content = <<>>
    /\ phase = "offset"
    /\ formatted = <<>>
    /\ reformatted = <<>>
    /\ pstate = ParseInit
    /\ linted = <<>>
    /\ new_time = NoValue
    /\ time_str = <<>>
    /\ parsed = NoValue
    /\ original_time = NoValue
    /\ root \in Trees
    /\ root0 = root
    /\ offset_seconds \in Offsets
    /\ pc = "idle"
    /\ CliAt(<<>>)

\* apply_offset(root, offset_seconds) (offset_ttml.py line 95)
ApplyOffset ==
    /\ phase = "offset"
    /\ phase' = "shifted"
    /\ root' = apply_offset(root, offset_seconds)
    /\ UNCHANGED <<content, formatted, reformatted, pstate, cliVars, linted, timeVars,
                   root0, offset_seconds>>

SpecOffset == InitOffset /\ [][ApplyOffset]_vars

SpecTime == InitTime /\ [][NextTime]_vars

(***************************************************************************)
(* SpecWrite: the rewrite of one file by process_file with --fix (lines    *)
(* 619-622), step by step: open(filepath, "w") empties the file, then the  *)
(* text is written and the file closed, or the write raises OSError and    *)
(* leaves some beginning of the text.                                      *)
(***************************************************************************)

InitWrite ==
    /\ \E stored \in {f \in Corpus : ~ReadRaises(f) /\ ~ParseRaises(normalize(read_text(f)))} :
          /\ store = <<stored>>
          /\ store0 = <<stored>>
          /\ content = normalize(read_text(stored))
          /\ formatted = format_ttml(normalize(read_text(stored)))
    /\ phase = "read"
    /\ fix = TRUE
    /\ check \in BOOLEAN
    /\ all = FALSE
    /\ warnings = FALSE
    /\ files = <<1>>
    /\ idx = 1
    /\ changed = 0
    /\ all_warnings = <<>>
    /\ out = <<>>
    /\ exit_status = 0
    /\ run = 1
    /\ errors = {}
    /\ prev = NoRun
    /\ pc = "loop"
    /\ reformatted = <<>>
    /\ pstate = ParseInit
    /\ AuxIdle

\* with open(filepath, "w", encoding="utf-8", newline="\n") as f (line 621):
\* mode "w" empties the file
OpenToWrite ==
    /\ phase = "read"
    /\ WritesFile(content # formatted, fix, check)
    /\ phase' = "opened"
    /\ store' = [store EXCEPT ![files[idx]] = <<>>]
    /\ UNCHANGED <<content, formatted, reformatted, pstate, auxVars, fix, check, all,
                   warnings, files, pc, idx, changed, all_warnings, out, exit_status, run,
                   store0, errors, prev>>

\* f.write(formatted) and the end of the with block (line 622)
WriteAndClose ==
    /\ phase = "opened"
    /\ phase' = "written"
    /\ store' = [store EXCEPT ![files[idx]] = formatted]
    /\ UNCHANGED <<content, formatted, reformatted, pstate, auxVars, fix, check, all,
                   warnings, files, pc, idx, changed, all_warnings, out, exit_status, run,
                   store0, errors, prev>>

\* the write raises OSError (no space left, the file too large): what had
\* reached the file stays, and the except clause of main prints the error
WriteRaises ==
    /\ phase = "opened"
    /\ phase' = "write raised"
    /\ \E n \in 0..(Len(formatted) - 1) :
          store' = [store EXCEPT ![files[idx]] = SubSeq(formatted, 1, n)]
    /\ out' = Append(out, ERROR_LINE(PathName(files[idx], all),
                                     <<"[", "E", "r", "r", "n", "o", " ", "2", "8", "]", " ", "N", "o", " ", "s", "p", "a", "c", "e", " ", "l", "e", "f", "t", " ", "o", "n", " ", "d", "e", "v", "i", "c", "e">>))
    /\ errors' = errors \cup {idx}
    /\ idx' = idx + 1
    /\ UNCHANGED <<content, formatted, reformatted, pstate, auxVars, fix, check, all,
                   warnings, files, pc, changed, all_warnings, exit_status, run, store0, prev>>

NextWrite == OpenToWrite \/ WriteAndClose \/ WriteRaises

SpecWrite == InitWrite /\ [][NextWrite]_vars

(***************************************************************************)
(* Reading a parsed tree, for the statements below.                        *)
(***************************************************************************)

RECURSIVE Elements(_)
\* the elements of a forest in document order (processing instructions and
\* text runs left out)
Elements(nodes) ==
    IF nodes = <<>> THEN <<>>
    ELSE LET n == Head(nodes)
         IN (IF n.isText THEN <<>>
             ELSE IF n.is_processing_instruction THEN Elements(n.children)
             ELSE <<n>> \o Elements(n.children))
            \o Elements(Tail(nodes))

\* the names of the attributes of an element, in the order they stand
AttrNames(e) == [i \in 1..Len(e.attrs) |-> e.attrs[i][1]]

\* the attribute names of every element, in document order
AllAttrNames(nodes) ==
    LET es == Elements(nodes) IN [i \in 1..Len(es) |-> AttrNames(es[i])]

\* the element children of a node
RECURSIVE OnlyElements(_)
OnlyElements(children) ==
    IF children = <<>> THEN <<>>
    ELSE (IF Head(children).isText THEN <<>> ELSE <<Head(children)>>)
         \o OnlyElements(Tail(children))

\* the first line of a text
FirstLine(s) ==
    LET nl == find(s, <<"\n">>, 1) IN IF nl = 0 THEN s ELSE Slice(s, 1, nl - 1)

Rendered == phase \in {"formatted", "reformatted"}

(***************************************************************************)
(* C1.  The formatter is idempotent: formatting the formatter's output     *)
(* gives that output again, character for character.                       *)
(***************************************************************************)
C1_Idempotent == phase = "reformatted" => reformatted = formatted

(***************************************************************************)
(* Reading a run of the command line, for the statements below.            *)
(***************************************************************************)

\* a stored file is not in canonical form: the formatter fails on its text
\* or gives another text
NonCanonical(stored) ==
    \/ ParseRaises(normalize(read_text(stored)))
    \/ format_ttml(normalize(read_text(stored))) # normalize(read_text(stored))

\* the run is in check mode: --check is given and --fix is not
CheckMode == check /\ ~fix

\* the run went through its files and has ended
RunEnded == phase = "cli" /\ pc = "exit" /\ files # <<>>

Printed(text) == \E i \in 1..Len(out) : out[i] = text

(***************************************************************************)
(* C2.  In check mode the run exits with a nonzero status if and only if   *)
(* at least one of its files is not canonical, and its summary reads       *)
(* "<changed>/<total> files need formatting." with changed the number of   *)
(* files that are not canonical and total the number of files.             *)
(***************************************************************************)

C2_NonCanonicalCount == Cardinality({i \in 1..Len(files) : NonCanonical(store0[files[i]])})

C2_CheckExit ==
    (RunEnded /\ CheckMode) =>
        /\ (exit_status # 0) <=> (C2_NonCanonicalCount > 0)
        /\ Printed(Str(C2_NonCanonicalCount) \o <<"/">> \o Str(Len(files))
                   \o <<" ", "f", "i", "l", "e", "s", " ", "n", "e", "e", "d", " ",
                        "f", "o", "r", "m", "a", "t", "t", "i", "n", "g", ".">>)

C4_ApplyThenCheck ==
    (RunEnded /\ CheckMode /\ prev.ran /\ prev.apply /\ prev.files = files) =>
        /\ \A i \in 1..Len(files) :
               i \notin prev.errors => ~Printed(NEEDS_LINE(PathName(files[i], all)))
        /\ (prev.errors = {} /\ errors = {}) => exit_status = 0

(***************************************************************************)
(* C5.  The parser never fails with a hard error: for every input text,    *)
(* malformed ones included, parse_ttml returns a node list and raises no   *)
(* exception.                                                              *)
(***************************************************************************)
C5_NeverRaises == pstate.status # "raise"

(***************************************************************************)
(* C6.  Parse truncation: when the construct opened by a < (a tag, a       *)
(* comment, a closing tag or a processing instruction) has no terminator   *)
(* before the end of the input, the scan stops at that iteration without   *)
(* an exception, and the nodes it holds are exactly those of the text      *)
(* before that <, text runs included.                                      *)
(***************************************************************************)

\* the construct opened at position lt of c has no terminator
C6_Unterminated(c, lt) ==
    IF StartsAt(c, <<"<", "?">>, lt)
    THEN \A j \in lt..Len(c) : ~StartsAt(c, <<"?", ">">>, j)
    ELSE IF StartsAt(c, <<"<", "!", "-", "-">>, lt)
    THEN \A j \in lt..Len(c) : ~StartsAt(c, <<"-", "-", ">">>, j)
    ELSE IF StartsAt(c, <<"/">>, lt + 1)
    THEN \A j \in lt..Len(c) : c[j] # ">"
    ELSE find_tag_end(c, lt) = 0

\* the position of the < the next iteration meets, 0 if there is none
C6_NextLt == IF pstate.pos > Len(content) THEN 0 ELSE find(content, <<"<">>, pstate.pos)

C6_Truncation ==
    [][(/\ phase = "parse"
        /\ pstate.status = "scan"
        /\ C6_NextLt # 0
        /\ C6_Unterminated(content, C6_NextLt))
       => (/\ pstate'.status = "truncated"
           /\ Tree(pstate') = parse_ttml(Slice(content, 1, C6_NextLt - 1)))]_vars

\* the scan has stopped at an unterminated construct inside an open element,
\* with a text run between the last complete construct and that <
C6_Witness ==
    /\ phase = "parse"
    /\ pstate.status = "truncated"
    /\ pstate.stack # <<>>
    /\ C6_NextLt > pstate.pos
    /\ C6_Unterminated(content, C6_NextLt)

(***************************************************************************)
(* C7.  In every rendered tag of an element the attributes of the priority *)
(* list come first, in the order of that list, and the others follow in    *)
(* alphabetical order of name (by character code, as Python compares       *)
(* strings); rendering the output again leaves every tag's attribute       *)
(* names in the same order.                                                *)
(***************************************************************************)

\* the priority list as the documentation states it
C7_Priority ==
    << <<"b", "e", "g", "i", "n">>,
       <<"e", "n", "d">>,
       <<"d", "u", "r">>,
       <<"t", "t", "m", ":", "a", "g", "e", "n", "t">>,
       <<"t", "t", "m", ":", "r", "o", "l", "e">>,
       <<"i", "t", "u", "n", "e", "s", ":", "k", "e", "y">>,
       <<"i", "t", "u", "n", "e", "s", ":", "t", "i", "m", "i", "n", "g">>,
       <<"t", "y", "p", "e">>,
       <<"x", "m", "l", ":", "i", "d">>,
       <<"x", "m", "l", ":", "l", "a", "n", "g">>,
       <<"x", "-", "r", "o", "m", "a", "n">>,
       <<"f", "o", "r">> >>

C7_Rank(name) ==
    IF \E i \in 1..Len(C7_Priority) : C7_Priority[i] = name
    THEN CHOOSE i \in 1..Len(C7_Priority) : C7_Priority[i] = name
    ELSE 0

C7_InOrder(names) ==
    \A i, j \in 1..Len(names) :
        i < j =>
            \/ C7_Rank(names[i]) > 0 /\ C7_Rank(names[j]) = 0
            \/ /\ C7_Rank(names[i]) > 0 /\ C7_Rank(names[j]) > 0
               /\ C7_Rank(names[i]) <= C7_Rank(names[j])
            \/ /\ C7_Rank(names[i]) = 0 /\ C7_Rank(names[j]) = 0
               /\ ~StrLess(names[j], names[i])

\* the output is looked at in the state that holds it first; an output that
\* is rendered to itself has its tags unchanged
C7_AttributeOrder ==
    /\ phase = "formatted" =>
          LET tags == AllAttrNames(parse_ttml(formatted))
          IN \A i \in 1..Len(tags) : C7_InOrder(tags[i])
    /\ phase = "reformatted" =>
          \/ reformatted = formatted
          \/ AllAttrNames(parse_ttml(reformatted)) = AllAttrNames(parse_ttml(formatted))

\* a tag of three attributes written out of order, two of them of the
\* priority list, has been rendered and rendered again
C7_Witness ==
    /\ phase = "reformatted"
    /\ \E names \in {AllAttrNames(parse_ttml(content))[i] :
                        i \in 1..Len(AllAttrNames(parse_ttml(content)))} :
          /\ Len(names) = 3
          /\ ~C7_InOrder(names)
          /\ Cardinality({i \in 1..3 : C7_Rank(names[i]) > 0}) = 2

(***************************************************************************)
(* C8.  For every document that parses to at least one node, the first     *)
(* line of the output is the canonical xml declaration.                    *)
(***************************************************************************)
C8_DeclarationFirst ==
    (Rendered /\ parse_ttml(content) # <<>>) => FirstLine(formatted) = XML_DECL

(***************************************************************************)
(* C9.  A line whose source is two word spans with exactly one space       *)
(* between them is rendered with exactly one space of separation, held     *)
(* inside one of the two spans (trailing in the first or leading in the    *)
(* second, not both, not none); the span texts put together give the two   *)
(* words with one space.                                                   *)
(***************************************************************************)

\* a word span: a span that is no background wrapper and holds one word
C9_IsWordSpan(n) ==
    /\ ~n.isText /\ ~n.is_processing_instruction
    /\ n.tag = SPAN_TAG /\ ~IsBgWrapper(n, SPAN_TAG)
    /\ Len(n.children) = 1 /\ n.children[1].isText
    /\ strip(n.children[1].text) # <<>>

\* the source is one line: word span, one space, word span
C9_TwoWordLine(nodes) ==
    /\ Len(nodes) = 1
    /\ ~nodes[1].isText /\ nodes[1].tag = P_TAG
    /\ Len(nodes[1].children) = 3
    /\ C9_IsWordSpan(nodes[1].children[1])
    /\ nodes[1].children[2] = TextNode(<<" ">>)
    /\ C9_IsWordSpan(nodes[1].children[3])
    /\ \A k \in {1, 3} :
          \A c \in Whitespace : ~Contains(nodes[1].children[k].children[1].text, c)

C9_OneSpace ==
    (phase = "formatted" /\ C9_TwoWordLine(parse_ttml(content))) =>
        LET src   == parse_ttml(content)[1]
            w1    == src.children[1].children[1].text
            w2    == src.children[3].children[1].text
            lines == Elements(parse_ttml(formatted))
            line  == lines[1]
            spans == OnlyElements(line.children)
            loose == OnlyTexts(line.children)
            t1    == spans[1].children[1].text
            t2    == spans[2].children[1].text
        IN /\ Len(lines) = 3 /\ line.tag = P_TAG
           /\ Len(spans) = 2 /\ C9_IsWordSpan(spans[1]) /\ C9_IsWordSpan(spans[2])
           /\ \A i \in 1..Len(loose) : strip(loose[i]) = <<>> /\ Contains(loose[i], "\n")
           /\ \/ t1 = w1 \o <<" ">> /\ t2 = w2
              \/ t1 = w1 /\ t2 = <<" ">> \o w2
           /\ t1 \o t2 = w1 \o <<" ">> \o w2

\* the line Tak, space, ada has been rendered
C9_Witness ==
    /\ phase = "formatted"
    /\ C9_TwoWordLine(parse_ttml(content))
    /\ parse_ttml(content)[1].children[1].children[1].text = <<"T", "a", "k">>
    /\ parse_ttml(content)[1].children[3].children[1].text = <<"a", "d", "a">>

(***************************************************************************)
(* C10.  Formatting never alters the meaningful text of a line: for every  *)
(* line element the descendant text in document order, with only the       *)
(* whitespace runs that hold a line break deleted, is the same in the      *)
(* output as in the source (the collapse of doubled parentheses inside     *)
(* background wrappers apart).  The runs are deleted in each text run by   *)
(* itself, and the two texts are compared up to whitespace at the two ends *)
(* of the line, the reading most favourable to the code.                   *)
(***************************************************************************)

RECURSIVE C10_Text(_, _)
\* the descendant text of a list of children; inside a background wrapper
\* doubled parentheses count as single ones
C10_Text(children, in_bg) ==
    IF children = <<>> THEN <<>>
    ELSE LET n == Head(children)
             t == sub_ws_nl_ws(n.text, <<>>, 1)
         IN (IF n.isText
             THEN IF in_bg
                  THEN replace(replace(t, <<"(", "(">>, <<"(">>), <<")", ")">>, <<")">>)
                  ELSE t
             ELSE C10_Text(n.children, in_bg \/ IsBgWrapper(n, SPAN_TAG)))
            \o C10_Text(Tail(children), in_bg)

\* the meaningful text of every line element, in document order
C10_LineTexts(nodes) ==
    LET es    == Elements(nodes)
        lines == {i \in 1..Len(es) : es[i].tag = P_TAG}
    IN [i \in lines |-> strip(C10_Text(es[i].children, FALSE))]

C10_TextPreserved ==
    phase = "formatted" =>
        C10_LineTexts(parse_ttml(formatted)) = C10_LineTexts(parse_ttml(content))

(***************************************************************************)
(* C11.  Attribute values survive formatting: element by element, in       *)
(* document order, the set of (name, value) pairs that parsing the output  *)
(* gives equals the set that parsing the source gives.                     *)
(***************************************************************************)

\* the set of attribute pairs of every element, in document order
C11_AttrPairs(nodes) ==
    [i \in 1..Len(Elements(nodes)) |->
        {Elements(nodes)[i].attrs[k] : k \in 1..Len(Elements(nodes)[i].attrs)}]

C11_AttributesSurvive ==
    phase = "formatted" =>
        /\ ~ParseRaises(formatted)
        /\ C11_AttrPairs(parse_ttml(formatted)) = C11_AttrPairs(parse_ttml(content))

\* the same, for documents in which no attribute value holds a double quote
C11_DoubleQuoted ==
    (phase = "formatted" /\ ~Contains(content, "'")) =>
        /\ ~ParseRaises(formatted)
        /\ C11_AttrPairs(parse_ttml(formatted)) = C11_AttrPairs(parse_ttml(content))

(***************************************************************************)
(* C12.  In a rendered background-vocal wrapper every doubled parenthesis  *)
(* of its text at any depth has become a single one; text outside the      *)
(* wrappers and attribute values keep their parentheses.                   *)
(***************************************************************************)

\* the parentheses of a text
C12_OnlyParens(t) == SelectSeq(t, LAMBDA c : c \in {"(", ")"})

RECURSIVE C12_Parens(_, _, _)
\* the parentheses of the text under children, in document order; with
\* cleanup, those of a text inside a background-vocal wrapper are taken
\* after its doubled parentheses have become single ones
C12_Parens(children, in_bg, cleanup) ==
    IF children = <<>> THEN <<>>
    ELSE (IF Head(children).isText
          THEN IF in_bg /\ cleanup
               THEN C12_OnlyParens(replace(replace(Head(children).text,
                                       <<"(", "(">>, <<"(">>), <<")", ")">>, <<")">>))
               ELSE C12_OnlyParens(Head(children).text)
          ELSE C12_Parens(Head(children).children,
                          in_bg \/ IsBgWrapper(Head(children), SPAN_TAG), cleanup))
         \o C12_Parens(Tail(children), in_bg, cleanup)

\* the attribute values of every element, in document order
C12_AttrValues(nodes) ==
    [i \in 1..Len(Elements(nodes)) |->
        {Elements(nodes)[i].attrs[k][2] : k \in 1..Len(Elements(nodes)[i].attrs)}]

\* on documents without a self-closed element (text merged into one is lost)
C12_ParenCleanup ==
    (phase = "formatted" /\ find(content, <<"/", ">">>, 1) = 0) =>
        /\ C12_Parens(parse_ttml(formatted), FALSE, FALSE)
              = C12_Parens(parse_ttml(content), FALSE, TRUE)
        /\ C12_AttrValues(parse_ttml(formatted)) = C12_AttrValues(parse_ttml(content))

\* the same for the documents in which a wrapper has no loose text next to
\* it to be merged into it: every child of a line or block is an element
C12_NoLooseText ==
    (/\ phase = "formatted"
     /\ find(content, <<"/", ">">>, 1) = 0
     /\ \A i \in 1..Len(Elements(parse_ttml(content))) :
           Elements(parse_ttml(content))[i].tag \in {P_TAG, <<"d", "i", "v">>}
              => \A k \in 1..Len(Elements(parse_ttml(content))[i].children) :
                    ~Elements(parse_ttml(content))[i].children[k].isText) =>
        /\ C12_Parens(parse_ttml(formatted), FALSE, FALSE)
              = C12_Parens(parse_ttml(content), FALSE, TRUE)
        /\ C12_AttrValues(parse_ttml(formatted)) = C12_AttrValues(parse_ttml(content))

(***************************************************************************)
(* C13.  The two tree rewrites are idempotent: after one pass no text in a *)
(* background-vocal wrapper holds a doubled parenthesis, and the text of   *)
(* every span after the second pass is its text after the first.           *)
(***************************************************************************)

RECURSIVE C13_BgTexts(_, _)
\* the text nodes under children that stand inside a background-vocal wrapper
C13_BgTexts(children, in_bg) ==
    IF children = <<>> THEN {}
    ELSE (IF Head(children).isText
          THEN IF in_bg THEN {Head(children).text} ELSE {}
          ELSE C13_BgTexts(Head(children).children,
                           in_bg \/ IsBgWrapper(Head(children), SPAN_TAG)))
         \cup C13_BgTexts(Tail(children), in_bg)

\* the text children of every span, in document order
C13_SpanTexts(nodes) ==
    LET spans == SelectSeq(Elements(nodes), LAMBDA e : e.tag = SPAN_TAG)
    IN [i \in 1..Len(spans) |-> Concat(OnlyTexts(spans[i].children))]

C13_RewritesIdempotent ==
    /\ Rendered =>
          \A t \in C13_BgTexts(parse_ttml(formatted), FALSE) :
              find(t, <<"(", "(">>, 1) = 0 /\ find(t, <<")", ")">>, 1) = 0
    /\ phase = "reformatted" =>
          C13_SpanTexts(parse_ttml(reformatted)) = C13_SpanTexts(parse_ttml(formatted))

(***************************************************************************)
(* C14.  A duplicate-key warning names K exactly when K is the key of more *)
(* than one line; a key of exactly two lines gets exactly one warning, a   *)
(* key of a single line none.                                              *)
(***************************************************************************)

\* the line elements of a document, in document order
C14_Lines(nodes) == SelectSeq(Elements(nodes), LAMBDA e : e.tag = P_TAG)

\* the values an element has for an attribute name
C14_Values(e, name) == {e.attrs[k][2] : k \in {h \in 1..Len(e.attrs) : e.attrs[h][1] = name}}

\* the key values of each line, in document order
C14_KeySets(lines) == [i \in 1..Len(lines) |-> C14_Values(lines[i], ITUNES_KEY)]

\* the number of lines that carry the key K, given the key values of each
C14_Carriers(K, sets) == Cardinality({i \in 1..Len(sets) : K \in sets[i]})

\* the positions of the warnings that end with a text
C14_Ending(text) == {i \in 1..Len(linted) : endswith(linted[i], text)}

\* the keys of the lines of the document
C14_Keys ==
    UNION {C14_Values(e, ITUNES_KEY) :
              e \in {C14_Lines(parse_ttml(content))[i] :
                        i \in 1..Len(C14_Lines(parse_ttml(content)))}}

\* what the claim says of the warnings, given the key values of each line
C14_Warned(sets) ==
    \A K \in UNION {sets[i] : i \in 1..Len(sets)} :
        /\ C14_Ending(<<"D", "u", "p", "l", "i", "c", "a", "t", "e", " ", "i", "t", "u", "n", "e", "s", ":", "k", "e", "y", ":", " ">> \o K) # {} <=> C14_Carriers(K, sets) > 1
        /\ C14_Carriers(K, sets) = 2 => Cardinality(C14_Ending(<<"D", "u", "p", "l", "i", "c", "a", "t", "e", " ", "i", "t", "u", "n", "e", "s", ":", "k", "e", "y", ":", " ">> \o K)) = 1

C14_DuplicateKey ==
    phase = "linted" => C14_Warned(C14_KeySets(C14_Lines(parse_ttml(content))))

\* the key values of each line hold a key of two lines and a key of one
C14_TwoAndOne(sets) ==
    /\ \E i \in 1..Len(sets) : \E K \in sets[i] : C14_Carriers(K, sets) = 2
    /\ \E i \in 1..Len(sets) : \E K \in sets[i] : C14_Carriers(K, sets) = 1

\* a document in which one key stands on two lines and another on one line
C14_Witness ==
    /\ phase = "linted"
    /\ C14_TwoAndOne(C14_KeySets(C14_Lines(parse_ttml(content))))

(***************************************************************************)
(* C15.  With N the numbers of the numbered line keys and M the numbers of *)
(* 1..max(N) that are not in N, there is exactly one missing-numbers       *)
(* warning, listing M in ascending order, when M has 1 to 10 members, and  *)
(* none when M is empty or has more than 10.                               *)
(***************************************************************************)

\* N: the numbers n for which L followed by n in decimal is one of the keys
C15_Numbers(keys) == {n \in 0..19 : <<"L">> \o Str(n) \in keys}

\* M, from N
C15_Missing(N) == {n \in 1..19 : n \notin N /\ \E k \in N : n < k}

\* the members of M in ascending order, as Python prints a list
C15_Listed(M) ==
    <<"[">>
    \o JoinWith([i \in 1..Cardinality(M) |->
                    Str(CHOOSE n \in M : Cardinality({k \in M : k < n}) = i - 1)],
                <<",", " ">>)
    \o <<"]">>

\* the positions of the missing-numbers warnings
C15_Warnings == {i \in 1..Len(linted) : find(linted[i], <<"M", "i", "s", "s", "i", "n", "g", " ", "i", "t", "u", "n", "e", "s", ":", "k", "e", "y", " ", "n", "u", "m", "b", "e", "r", "s">>, 1) # 0}

\* what the claim says of the warnings, given M
C15_Reported(M) ==
    IF Cardinality(M) \in 1..10
    THEN /\ Cardinality(C15_Warnings) = 1
         /\ \A i \in C15_Warnings : endswith(linted[i], <<"M", "i", "s", "s", "i", "n", "g", " ", "i", "t", "u", "n", "e", "s", ":", "k", "e", "y", " ", "n", "u", "m", "b", "e", "r", "s", ":", " ">> \o C15_Listed(M))
    ELSE C15_Warnings = {}

C15_MissingNumbers ==
    phase = "linted" => C15_Reported(C15_Missing(C15_Numbers(C14_Keys)))

\* ten numbers are missing, and in another document more than ten
C15_Witness ==
    phase = "linted" /\ Cardinality(C15_Missing(C15_Numbers(C14_Keys))) = 10

C15_WitnessSuppressed ==
    phase = "linted" /\ Cardinality(C15_Missing(C15_Numbers(C14_Keys))) > 10

(***************************************************************************)
(* C16.  A line whose begin and end both parse gets exactly one line       *)
(* warning if its begin is not before its end, equal times included, and   *)
(* none if its begin is before its end.                                    *)
(***************************************************************************)

\* the time a timestamp of the generated documents stands for, in
\* milliseconds; -1 for a text that is no timestamp
C16_Millis(ts) ==
    CASE ts = <<"0", "0", ":", "0", "4", ".", "0", "0", "0">> -> 4000
      [] ts = <<"0", "0", ":", "0", "5", ".", "0", "0", "0">> -> 5000
      [] ts = <<"5">> -> 5000
      [] ts = <<"0", ":", "0", "0", ":", "0", "5">> -> 5000
      [] OTHER -> -1

\* the time of the attribute name of an element; -1 if it has none
C16_Time(e, name) ==
    IF C14_Values(e, name) = {} THEN -1
    ELSE C16_Millis(CHOOSE v \in C14_Values(e, name) : TRUE)

\* the positions of the warnings that hold a text
C16_Holding(text) == {i \in 1..Len(linted) : find(linted[i], text, 1) # 0}

\* the positions in a sequence of elements of those with both times, whose
\* begin is not before its end (strictly after it, if strict)
C16_Late(es, strict) ==
    {i \in 1..Len(es) :
        /\ C16_Time(es[i], BEGIN) >= 0
        /\ C16_Time(es[i], END) >= 0
        /\ IF strict THEN C16_Time(es[i], BEGIN) > C16_Time(es[i], END)
           ELSE C16_Time(es[i], BEGIN) >= C16_Time(es[i], END)}

C17_WordSpans(nodes) ==
    SelectSeq(Elements(nodes),
              LAMBDA e : e.tag = SPAN_TAG /\ X_BG \notin C14_Values(e, <<"t", "t", "m", ":", "r", "o", "l", "e">>))

\* the background-vocal wrappers of a document
C17_Wrappers(nodes) ==
    SelectSeq(Elements(nodes),
              LAMBDA e : e.tag = SPAN_TAG /\ X_BG \in C14_Values(e, <<"t", "t", "m", ":", "r", "o", "l", "e">>))

\* the end of the warning of a span: its timestamps and its text
C17_Report(e) ==
    <<"]", " ", "s", "p", "a", "n", " ", "b", "e", "g", "i", "n", " ", ">", " ", "e", "n", "d", ":", " ">> \o (CHOOSE v \in C14_Values(e, BEGIN) : TRUE) \o <<" ", ">", " ">>
    \o (CHOOSE v \in C14_Values(e, END) : TRUE)
    \o <<" ", "(", "t", "e", "x", "t", ":", " ", "'">> \o Concat(OnlyTexts(e.children)) \o <<"'", ")">>

\* what the claim says of the warnings, given the word spans
C17_Reported(spans) ==
    /\ Cardinality(C16_Holding(<<"]", " ", "s", "p", "a", "n", " ", "b", "e", "g", "i", "n", " ", ">", " ", "e", "n", "d", ":", " ">>)) = Cardinality(C16_Late(spans, TRUE))
    /\ \A i \in C16_Late(spans, TRUE) :
          Cardinality(C14_Ending(C17_Report(spans[i])))
              = Cardinality({k \in C16_Late(spans, TRUE) :
                                C17_Report(spans[k]) = C17_Report(spans[i])})

C17_WitnessZero ==
    /\ phase = "linted"
    /\ \E i \in C16_Late(C17_WordSpans(parse_ttml(content)), FALSE) :
          i \notin C16_Late(C17_WordSpans(parse_ttml(content)), TRUE)

(***************************************************************************)
(* C18.  A line or span whose begin or end is missing, or is no timestamp  *)
(* (a component that is no number, more than three components), gets no    *)
(* timing warning, and the linter returns its list all the same.           *)
(***************************************************************************)

\* the elements of es whose begin and end are both timestamps
C18_Timed(es) ==
    {i \in 1..Len(es) : C16_Time(es[i], BEGIN) >= 0 /\ C16_Time(es[i], END) >= 0}

\* the timing warnings are at most one for each element with two timestamps
C18_Silent(lines, spans) ==
    /\ Cardinality(C16_Holding(<<"]", " ", "p", " ", "b", "e", "g", "i", "n", " ", ">", "=", " ", "e", "n", "d", ":", " ">>)) <= Cardinality(C18_Timed(lines))
    /\ Cardinality(C16_Holding(<<"]", " ", "s", "p", "a", "n", " ", "b", "e", "g", "i", "n", " ", ">", " ", "e", "n", "d", ":", " ">>)) <= Cardinality(C18_Timed(spans))
    /\ \A k \in 1..Len(linted) :
          \A i \in 1..Len(lines) :
             /\ i \notin C18_Timed(lines)
             /\ C14_Values(lines[i], BEGIN) # {}
             => find(linted[k], <<"p", " ", "b", "e", "g", "i", "n", " ", ">", "=", " ", "e", "n", "d", ":", " ">> \o (CHOOSE v \in C14_Values(lines[i], BEGIN) : TRUE) \o <<" ", ">">>, 1) = 0

C18_UnparsableAbsent ==
    phase = "linted"
        => C18_Silent(C14_Lines(parse_ttml(content)), C17_WordSpans(parse_ttml(content)))

\* a line whose begin is no number, one whose end has four components and
\* one without end have been linted
C18_Witness ==
    /\ phase = "linted"
    /\ \E e \in {C14_Lines(parse_ttml(content))[i] : i \in 1..Len(C14_Lines(parse_ttml(content)))} :
          \/ <<"a", "b", "c">> \in C14_Values(e, BEGIN)
          \/ <<"1", ":", "2", ":", "3", ":", "4">> \in C14_Values(e, END)
          \/ C14_Values(e, END) = {}
    /\ C18_Timed(C14_Lines(parse_ttml(content))) = {}
    /\ C17_WordSpans(parse_ttml(content)) # <<>>

(***************************************************************************)
(* C19.  A time of whole milliseconds that format_time has written is read *)
(* back by parse_time as the same number of milliseconds, times of an hour *)
(* and more included.                                                      *)
(***************************************************************************)

\* the nearest whole number of milliseconds of a time that is not negative,
\* -1 if it is no finite number
C19_Millis(a) ==
    IF a.kind # "num" THEN -1
    ELSE IF a.d <= 3 THEN a.m * Pow10(3 - a.d)
    ELSE (a.m + 5 * Pow10(a.d - 4)) \div Pow10(a.d - 3)

C19_RoundTrip ==
    /\ parsed # NoValue => C19_Millis(parsed) = C19_Millis(new_time)
    /\ original_time # NoValue => C19_Millis(original_time) = C19_Millis(new_time)

\* a time of more than an hour with minutes, seconds and milliseconds has
\* been written and read back by both functions
C19_Witness ==
    /\ phase = "shown"
    /\ parsed # NoValue
    /\ original_time # NoValue
    /\ C19_Millis(new_time) = 3600000 + 59 * 60000 + 59 * 1000 + 999
    /\ time_str = <<"1", "1", "9", ":", "5", "9", ".", "9", "9", "9">>

(***************************************************************************)
(* C20.  A file whose processing raises (it cannot be decoded, the parser  *)
(* raises) gets an ERROR line with its path and the message, and the run   *)
(* goes on: every file of the list is gone through, the files after the    *)
(* failing one are reported in their order and counted.                    *)
(***************************************************************************)

\* what a stored file makes process_file raise with, <<>> if nothing
C20_Message(stored) ==
    CASE stored = <<"0xFF">> -> <<"'", "u", "t", "f", "-", "8", "'", " ", "c", "o", "d", "e", "c", " ", "c", "a", "n", "'", "t", " ", "d", "e", "c", "o", "d", "e", " ", "b", "y", "t", "e", " ", "0", "x", "f", "f", " ", "i", "n", " ", "p", "o", "s", "i", "t", "i", "o", "n", " ", "0", ":", " ", "i", "n", "v", "a", "l", "i", "d", " ", "s", "t", "a", "r", "t", " ", "b", "y", "t", "e">>
      [] stored = <<"<", ">">> -> <<"l", "i", "s", "t", " ", "i", "n", "d", "e", "x", " ", "o", "u", "t", " ", "o", "f", " ", "r", "a", "n", "g", "e">>
      [] OTHER -> <<>>

\* the positions in what was printed of the report of the file at
\* position i: its ERROR line, or its status line
C20_At(i, path) ==
    {k \in 1..Len(out) :
        IF C20_Message(store0[files[i]]) # <<>>
        THEN out[k] = <<"E", "R", "R", "O", "R", " ">> \o path \o <<":", " ">>
                      \o C20_Message(store0[files[i]])
        ELSE /\ endswith(out[k], <<":", " ">> \o path)
             /\ find(out[k], <<"E", "R", "R", "O", "R">>, 1) # 1}

\* the stored files the formatter leaves as they are: the canonical file of
\* the corpus, and what --fix has made of a line and of an empty block
C20_Canonical ==
    { <<"<", "?", "x", "m", "l", " ", "v", "e", "r", "s", "i", "o", "n", "=", "\"", "1", ".", "0", "\"", " ", "e", "n", "c", "o", "d", "i", "n", "g", "=", "\"", "u", "t", "f", "-", "8", "\"", "?", ">", "\n", "<", "p", " ", "b", "e", "g", "i", "n", "=", "\"", "2", "\"", " ", "e", "n", "d", "=", "\"", "1", "\"", "/", ">", "\n">>,
      <<"<", "?", "x", "m", "l", " ", "v", "e", "r", "s", "i", "o", "n", "=", "\"", "1", ".", "0", "\"", " ", "e", "n", "c", "o", "d", "i", "n", "g", "=", "\"", "u", "t", "f", "-", "8", "\"", "?", ">", "\n", "<", "p", "/", ">", "\n">>,
      <<"<", "?", "x", "m", "l", " ", "v", "e", "r", "s", "i", "o", "n", "=", "\"", "1", ".", "0", "\"", " ", "e", "n", "c", "o", "d", "i", "n", "g", "=", "\"", "u", "t", "f", "-", "8", "\"", "?", ">", "\n", "<", "d", "i", "v", "/", ">", "\n">> }

\* the positions of the files that do not raise and are not canonical
C20_Changing ==
    {i \in 1..Len(files) :
        C20_Message(store0[files[i]]) = <<>> /\ store0[files[i]] \notin C20_Canonical}

\* what the claim says of a run that has ended, given the positions of the
\* files that change and those of the report of each file
C20_Reported(changing, at) ==
    /\ idx = Len(files) + 1
    /\ changed = Cardinality(changing)
    /\ \A i \in 1..Len(files) :
          /\ Cardinality(at[i])
                = (IF C20_Message(store0[files[i]]) # <<>> \/ i \in changing THEN 1 ELSE 0)
          /\ \A j \in 1..Len(files) :
                i < j => \A a \in at[i] : \A b \in at[j] : a < b

C20_BatchGoesOn ==
    RunEnded =>
        C20_Reported(C20_Changing,
                     [i \in 1..Len(files) |-> C20_At(i, PathName(files[i], all))])

\* a run has ended whose first file could not be decoded and whose second
\* file was reported and counted
C20_Witness ==
    /\ RunEnded
    /\ Len(files) = 2
    /\ store0[files[1]] = <<"0xFF">>
    /\ changed = 1
    /\ C20_Changing = {2}

\* a run has ended whose first file made the parser raise and whose second
\* file could not be decoded
C20_WitnessBoth ==
    /\ RunEnded
    /\ Len(files) = 2
    /\ store0[files[1]] = <<"<", ">">>
    /\ store0[files[2]] = <<"0xFF">>
    /\ Len(out) >= 2

(***************************************************************************)
(* C21.  No partial writes: at every point of a rewrite, also when the     *)
(* write fails midway, the file holds either all of what it held before or *)
(* all of the canonical text, never an empty or cut-off text.              *)
(***************************************************************************)
C21_NoPartialWrite ==
    phase \in {"read", "opened", "written", "write raised"} =>
        \A i \in 1..Len(store) : store[i] \in {store0[i], formatted}

(***************************************************************************)
(* C22.  One mode governs a run, whatever the flags: report (nothing       *)
(* written, exit 0), apply (files rewritten, the summary says Fixed, exit  *)
(* 0) or check (nothing written, the summary says need formatting, exit 1  *)
(* exactly when a file is not canonical); no run both rewrites a file and  *)
(* exits with the status of a failed check.                                *)
(***************************************************************************)

\* the last part of the statement: a run that has rewritten a file does not
\* exit with status 1
C22_NeverRewritesAndFails == RunEnded => ~(store # store0 /\ exit_status = 1)

(***************************************************************************)
(* C23.  After apply_offset with offset d every begin, end and dur         *)
(* attribute of every element holds max(0, t + d), t being the time the    *)
(* attribute held, given with minutes or with hours; none is negative.     *)
(***************************************************************************)

\* the milliseconds a time text of the generated trees stands for
C23_Millis(text) ==
    CASE text = <<"0", "0", ":", "0", "5", ".", "0", "0", "0">> -> 5000
      [] text = <<"1", ":", "0", "0", ":", "0", "5", ".", "0", "0", "0">> -> 3605000
      [] text = <<"0", "0", ":", "0", "0", ".", "0", "5", "0">> -> 50
      [] OTHER -> -1

\* the milliseconds of an offset
C23_Offset(d) == IF d.m < 0 THEN 0 - C19_Millis(Num(0 - d.m, d.d)) ELSE C19_Millis(d)

RECURSIVE C23_Shifted(_, _, _)
\* element is before with every timing attribute moved by d milliseconds
C23_Shifted(before, element, d) ==
    /\ Len(element.attrib) = Len(before.attrib)
    /\ \A k \in 1..Len(before.attrib) :
          /\ element.attrib[k][1] = before.attrib[k][1]
          /\ C19_Millis(parse_time(element.attrib[k][2]))
                = (IF C23_Millis(before.attrib[k][2]) + d < 0 THEN 0
                   ELSE C23_Millis(before.attrib[k][2]) + d)
    /\ Len(element.children) = Len(before.children)
    /\ \A i \in 1..Len(before.children) :
          C23_Shifted(before.children[i], element.children[i], d)

C23_TimestampShift ==
    phase = "shifted" => C23_Shifted(root0, root, C23_Offset(offset_seconds))


(***************************************************************************)
(* C24.  Comments are dropped: the text format_ttml returns holds no       *)
(* comment of the source, also when the source holds nothing but comments  *)
(* and white space.                                                        *)
(***************************************************************************)
C24_CommentsDropped ==
    phase = "formatted" => find(formatted, <<"<", "!", "-", "-">>, 1) = 0


(***************************************************************************)
(* C25.  An element without children is rendered as one self-closed tag,   *)
(* whether the source wrote <x/> or <x></x>, never as an opening and a     *)
(* closing tag with nothing between; the only elements rendered as such an *)
(* empty pair are elements collapsed onto one line whose children are text *)
(* that resolves to nothing.                                               *)
(***************************************************************************)

\* the source element e has no children
C25_Childless(e) == e.is_self_closing \/ e.children = <<>>

\* the source element e has children, all of them text, all of it white space
C25_Blank(e) ==
    /\ e.children # <<>>
    /\ \A i \in 1..Len(e.children) : e.children[i].isText /\ strip(e.children[i].text) = <<>>

\* the > at position j of the text t ends an opening tag
C25_OpensBefore(t, j) ==
    \E lt \in 1..(j - 1) :
        /\ t[lt] = "<"
        /\ t[lt + 1] # "/"
        /\ \A k \in (lt + 1)..(j - 1) : t[k] \notin {"<", ">"}

\* the opening tag that ends at position j of the text t has a closing tag
\* right behind it: t holds <tag ...></tag> there
C25_EmptyPairAt(t, j) ==
    t[j] = ">" /\ StartsAt(t, <<"<", "/">>, j + 1) /\ C25_OpensBefore(t, j)

\* src holds the elements of the source, t is the output
C25_Rendered(src, t) ==
    /\ Cardinality({i \in 1..Len(src) : C25_Childless(src[i])})
          = Cardinality({j \in 2..Len(t) : t[j] = ">" /\ t[j - 1] = "/"})
    /\ \A j \in 1..Len(t) :
          C25_EmptyPairAt(t, j) =>
              \E h \in 1..Len(src) :
                  /\ StartsAt(t, Closed(src[h].tag), j + 1)
                  /\ C25_Blank(src[h])
                  /\ src[h].tag # P_TAG
                  /\ ~IsBgWrapper(src[h], SPAN_TAG)

\* nodes is what the source parses to, t the output
C25_Formatted(nodes, t) == nodes # <<>> => C25_Rendered(Elements(nodes), t)

C25_WitnessPair ==
    /\ phase = "formatted"
    /\ content = <<"<", "d", "i", "v", ">", " ", "<", "/", "d", "i", "v", ">">>
    /\ find(formatted, <<"<", "d", "i", "v", ">", "<", "/", "d", "i", "v", ">">>, 1) # 0


(***************************************************************************)
(* C26.  A background-vocal wrapper with children is rendered as a group   *)
(* of lines of its own wherever it stands in a line, directly or inside a  *)
(* word span: its opening tag is on a line by itself, behind nothing but   *)
(* the indentation.                                                        *)
(***************************************************************************)

\* the beginning of the opening tag of a wrapper, as format_attrs writes it
C26_WrapperOpen ==
    <<"<", "s", "p", "a", "n", " ", "t", "t", "m", ":", "r", "o", "l", "e", "=", "\"", "x", "-", "b", "g", "\"">>

\* position j of the text t is behind the indentation of a line
C26_BehindIndentation(t, j) ==
    \E k \in 0..(j - 1) :
        /\ k = 0 \/ t[k] = "\n"
        /\ \A h \in (k + 1)..(j - 1) : t[h] = " "

\* the tag that begins at position j of t ends its line
C26_EndsLine(t, j) ==
    LET gt == find(t, <<">">>, j)
    IN gt # 0 /\ gt < Len(t) /\ t[gt + 1] = "\n"

C26_WrapperOnOwnLines ==
    phase = "formatted" =>
        \A j \in 1..Len(formatted) :
            StartsAt(formatted, C26_WrapperOpen, j) =>
                C26_BehindIndentation(formatted, j) /\ C26_EndsLine(formatted, j)


(***************************************************************************)
(* C27.  After the reconciliation of a line that has an element child no   *)
(* text run is left as a child of the line: the text before the first      *)
(* element is the first child of that element, every text run behind an    *)
(* element is appended, in order, to the children of the nearest element   *)
(* before it, and the text of the line reads in the same order as before.  *)
(***************************************************************************)

\* the positions of the elements among the children c, ascending
C27_Positions(c) == SelectSeq([i \in 1..Len(c) |-> i], LAMBDA i : ~c[i].isText)

\* the text of the runs before position q of c
C27_TextBefore(c, q) == Concat([i \in 1..(q - 1) |-> c[i].text])

\* the k-th element of c with the text runs that belong to it
C27_Expected(c, pos, k) ==
    LET q      == pos[k]
        next   == IF k < Len(pos) THEN pos[k + 1] ELSE Len(c) + 1
        before == C27_TextBefore(c, q)
        lead   == IF k = 1 /\ before # <<>> THEN <<TextNode(before)>> ELSE <<>>
    IN [c[q] EXCEPT !.children = lead \o @ \o SubSeq(c, q + 1, next - 1)]

RECURSIVE C27_Flat(_)
\* all the text below the nodes, in document order
C27_Flat(nodes) ==
    IF nodes = <<>> THEN <<>>
    ELSE (IF Head(nodes).isText THEN Head(nodes).text ELSE C27_Flat(Head(nodes).children))
         \o C27_Flat(Tail(nodes))

\* m is the reconciliation of the children c (text runs of indentation
\* already stripped)
C27_Merged(c, pos, m) ==
    pos # <<>> =>
        /\ Len(m) = Len(pos)
        /\ \A k \in 1..Len(m) : ~m[k].isText /\ m[k] = C27_Expected(c, pos, k)
        /\ C27_Flat(m) = C27_Flat(c)

\* the check on every line of a forest
C27_Lines(lines) ==
    \A i \in 1..Len(lines) :
        C27_Merged(StripIndentation(lines[i].children),
                   C27_Positions(StripIndentation(lines[i].children)),
                   merged_nodes(lines[i], FALSE))

C27_Reconciliation ==
    phase = "formatted" => C27_Lines(C14_Lines(parse_ttml(content)))

\* the line has a text run before its first element and one behind an element
C27_Mixed(c) ==
    /\ Len(c) >= 3
    /\ c[1].isText
    /\ \E i \in 2..(Len(c) - 1) : ~c[i].isText /\ c[i + 1].isText

\* a line with text before its first word and behind a word has been formatted
C27_Witness ==
    /\ phase = "formatted"
    /\ \E i \in 1..Len(C14_Lines(parse_ttml(content))) :
          C27_Mixed(StripIndentation(C14_Lines(parse_ttml(content))[i].children))


(***************************************************************************)
(* C28.  The prefix mode is one for the whole document: it is on exactly   *)
(* when some element, at any depth, has a tag that begins with tt:.  When  *)
(* it is on only tt:p is a line and tt:span a word (a p or span without    *)
(* the prefix is not), when it is off only p and span are; the formatter   *)
(* and the linter work in the same mode on the same text.                  *)
(***************************************************************************)

\* some element of els has a tag that begins with tt:
C28_Prefixed(els) == \E i \in 1..Len(els) : startswith(els[i].tag, <<"t", "t", ":">>)

\* how often the text pat stands in the text t
C28_Count(t, pat) == Cardinality({j \in 1..Len(t) : StartsAt(t, pat, j)})

\* the lines of the text t written without and with the prefix
C28_Plain(t) == C28_Count(t, <<"<", "p", " ">>)
C28_WithPrefix(t) == C28_Count(t, <<"<", "t", "t", ":", "p", " ">>)

\* the first words of the output that were given the space behind them
C28_PlainWords(t) ==
    C28_Count(t, <<"<", "s", "p", "a", "n", ">", "a", " ", "<", "/", "s", "p", "a", "n", ">">>)
C28_PrefixWords(t) ==
    C28_Count(t, <<"<", "t", "t", ":", "s", "p", "a", "n", ">", "a", " ", "<", "/", "t", "t", ":", "s", "p", "a", "n", ">">>)

\* with the mode on, the prefixed lines are formatted and linted as lines
\* and the others are not; with the mode off, the lines without the prefix
C28_Governs(mode, text, output, found) ==
    /\ C28_PlainWords(output) = (IF mode THEN 0 ELSE C28_Plain(text))
    /\ C28_PrefixWords(output) = (IF mode THEN C28_WithPrefix(text) ELSE 0)
    /\ Len(found) = (IF mode THEN C28_WithPrefix(text) ELSE C28_Plain(text))

C28_PrefixMode ==
    phase = "processed" =>
        C28_Governs(C28_Prefixed(Elements(parse_ttml(content))), content, formatted, linted)


(***************************************************************************)
(* C29.  The warnings block is printed only on request: a run prints       *)
(* "Lint warnings:" if and only if the warnings flag was given and one of  *)
(* its files has warnings.                                                 *)
(***************************************************************************)
C29_BlockOnRequest ==
    RunEnded =>
        (Printed(<<"L", "i", "n", "t", " ", "w", "a", "r", "n", "i", "n", "g", "s", ":">>)
            <=> (warnings /\ all_warnings # <<>>))


(***************************************************************************)
(* C30.  The parser terminates on every input: an iteration of its loop    *)
(* either stops the scan or moves the read position forward, never beyond  *)
(* the end of the text by more than one, so that the scan stops; and the   *)
(* stack of open elements never holds more elements than opening tags were *)
(* read.                                                                   *)
(***************************************************************************)

\* the iteration from st to next stops the scan or moves forward in c
C30_Advances(c, st, next) ==
    \/ next.status # "scan"
    \/ next.pos > st.pos /\ next.pos <= Len(c) + 1

\* no more open elements than elements read: every opening tag read has put
\* one element into the tree
C30_StackBounded(st) == Len(st.stack) <= Len(Elements(Tree(st)))

C30_Terminates ==
    /\ [][(phase = "parse" /\ pstate.status = "scan") =>
              (C30_Advances(content, pstate, pstate') /\ C30_StackBounded(pstate'))]_vars
    /\ <>(pstate.status # "scan")

\* the scan has read two opening tags, both still open, and has stopped at
\* the end of the text
C30_Witness ==
    /\ phase = "parse"
    /\ pstate.status = "done"
    /\ pstate.pos > Len(content)
    /\ Len(pstate.stack) = 2



=============================================================================
